---- MODULE Spec2Model ----
(***************************************************************************)
(* Business Explorer: the enrichment pipeline of app.py (main), its three  *)
(* enrichment stages (p2_competencia.busqueda_competencia,                 *)
(* p3_reputacion.analizar_reputacion, p4_transporte.analizar_transporte)   *)
(* and the scoring engine (app.calcular_puntuacion) followed by the        *)
(* ranking (DataFrame.sort_values).                                        *)
(*                                                                         *)
(* Numbers.  Ratings are kept in tenths (4.5 -> 45), mean ratings and      *)
(* final scores in hundredths (7.25 -> 725).  The intermediate notes of    *)
(* the scoring engine are exact fractions <<num, den>>; Python's           *)
(* round(x, 2) is modelled as round-half-to-even of the exact value.       *)
(*                                                                         *)
(* A DataFrame is [cols, rows]: the set of column names it has and the     *)
(* sequence of its rows in positional order.  Every row carries its index  *)
(* label (idx), which pandas keeps attached to the row when rows are       *)
(* reordered.  A column that is not in cols holds a default in the rows.   *)
(***************************************************************************)
EXTENDS Integers, Sequences, FiniteSets, TLC

VARIABLES
    pc,                   \* position of main (and of the stage it is running)
    world,                \* what the external services answer, per candidate
    loc,                  \* main's locals df_1 .. df_final (and the tables of the re-runs)
    calls,                \* the stage calls main has made, with their arguments
    rets,                 \* the values the stage calls have returned
    dfw,                  \* the working copy of the stage that is running
    k,                    \* position of the row the stage's loop is at
    lista_cps,            \* busqueda_competencia: lista_cps
    lista_comp,           \* busqueda_competencia: lista_comp
    resultados_metricas,  \* analizar_reputacion: resultados_metricas
    columna_transporte,   \* analizar_transporte: columna_transporte
    fallos,               \* positions of the rows at which the running stage saw a failure
    driver,               \* the browser of analizar_reputacion
    consultas,            \* the requests the stages have sent to the external services
    red,                  \* what the bike-share service answers, request by request
    estaciones_bicis,     \* analizar_transporte: estaciones_bicis
    entrada,              \* the arguments of the function that is studied on its own
    salida                \* what that function returned

vars == <<pc, world, loc, calls, rets, dfw, k, lista_cps, lista_comp,
          resultados_metricas, columna_transporte, fallos, driver,
          consultas, red, estaciones_bicis, entrada, salida>>

(***************************************************************************)
(* Bounds                                                                  *)
(***************************************************************************)
MaxCand == 2

(***************************************************************************)
(* Program constants                                                       *)
(***************************************************************************)
UMBRAL_BUENO == 38

\* "no rating found": the None that buscar_nota_duckduckgo returns
SinNota == -1

(***************************************************************************)
(* Arithmetic helpers                                                      *)
(***************************************************************************)
Max(S) == CHOOSE x \in S : \A y \in S : y <= x

Min(S) == CHOOSE x \in S : \A y \in S : x <= y

Rango(s) == {s[i] : i \in 1..Len(s)}

\* the integer nearest to num/den (den > 0), exact ties going to the even one
RoundHalfEven(num, den) ==
    LET q == (2 * num + den) \div (2 * den)
        tie == ((2 * num + den) % (2 * den)) = 0
    IN  IF tie /\ (q % 2 = 1) THEN q - 1 ELSE q

FAdd(a, b) == <<a[1] * b[2] + b[1] * a[2], a[2] * b[2]>>

FMul(c, a) == <<c * a[1], a[2]>>

RECURSIVE SumSeq(_)
SumSeq(s) == IF s = <<>> THEN 0 ELSE Head(s) + SumSeq(Tail(s))

(***************************************************************************)
(* Tables                                                                  *)
(***************************************************************************)
ColsP1 == {"NUMERO", "NOMBRE", "DIRECCION", "COORDENADAS", "PRECIO", "LINK"}

NoDF == [cols |-> {}, rows |-> <<>>]

\* DataFrame.empty
Empty(df) == df.rows = <<>>

\* df[col] = values: pandas raises ValueError unless there is one value per row
AssignOk(df, values) == Len(values) = Len(df.rows)

(***************************************************************************)
(* The value of a COORDENADAS cell: a tuple or a list of numbers (v), a    *)
(* string (txt), or something else (None, NaN).                            *)
(***************************************************************************)
Tupla(lat, lon) == [tipo |-> "tuple", v |-> <<lat, lon>>, txt |-> ""]

Lista(lat, lon) == [tipo |-> "list", v |-> <<lat, lon>>, txt |-> ""]

Texto(txt) == [tipo |-> "str", v |-> <<>>, txt |-> txt]

Nulo == [tipo |-> "none", v |-> <<>>, txt |-> ""]

\* isinstance(coords, (tuple, list))
EsTuplaOLista(c) == c.tipo \in {"tuple", "list"}

\* one row of the table p1.busqueda builds: label i-1 of the RangeIndex, NUMERO i
FilaP1(i, w) ==
    [idx |-> i - 1, NUMERO |-> i, NOMBRE |-> <<"nombre", i>>, DIRECCION |-> <<"direccion", i>>,
     LINK |-> <<"link", i>>, PRECIO |-> w.precio, COORDENADAS |-> Tupla(w.lat, w.lon),
     CODIGO_POSTAL |-> "", COMPETENCIA |-> <<>>, NUM_COMPETENCIA |-> <<>>,
     NUM_TRANS_PUB |-> <<>>, NOTA_FINAL |-> 0]

\* pd.DataFrame(lista_para_df, columns=[...]) at the end of p1.busqueda
busqueda(w) == [cols |-> ColsP1, rows |-> [i \in 1..Len(w) |-> FilaP1(i, w[i])]]

(***************************************************************************)
(* The external services.  world[i] is what they answer for the candidate  *)
(* with NUMERO i: the listing's price and coordinates (p1), the postal     *)
(* code of the reverse geocoder and the competitors of the point-of-       *)
(* interest query (p2), the transport counts (p4).  Opiniones is what the  *)
(* web search finds for a competitor's name (p3).                          *)
(***************************************************************************)
Perfil(precio, rivales, trans) ==
    [precio |-> precio, lat |-> 40, lon |-> 3, cp |-> "28001",
     rivales |-> rivales, trans |-> trans]

\* the candidates of the pipeline runs
Perfiles ==
    {Perfil(100, <<>>, <<0, 0, 0>>),
     Perfil(200, <<>>, <<2, 1, 0>>),
     Perfil(100, <<"Bar Bueno", "Bar Oculto">>, <<2, 1, 0>>),
     Perfil(200, <<"Bar Malo", "Bar Bueno">>, <<0, 0, 0>>)}

Precios == {w.precio : w \in Perfiles}

Mundos == UNION {[1..n -> Perfiles] : n \in 0..MaxCand}

\* the rating buscar_nota_duckduckgo resolves for a name, in tenths; SinNota for None
Opiniones(nombre) ==
    CASE nombre = "Bar Bueno" -> 45
      [] nombre = "Bar Justo" -> 38
      [] nombre = "Bar Malo"  -> 30
      [] OTHER -> SinNota

\* len(nombre_comp) < 2 or "Local" in nombre_comp, on the names of the model
NombreDescartado(nombre) == nombre \in {"", "X", "(Local)"}

(***************************************************************************)
(* p2_competencia.busqueda_competencia, one row of its loop.               *)
(* fallo names the statement of the try body that raises:                  *)
(*   "no"      nothing raises                                              *)
(*   "antes"   a statement before lista_cps.append (lines 312-324)         *)
(*   "comp"    the competitor search, after lista_cps.append (line 330:    *)
(*             the print of obtener_competencia's own handler)             *)
(*   "informe" the report or the pause after both appends (lines 333-334)  *)
(* The handler (line 338) appends "00000" and [] whatever was appended     *)
(* before the exception.                                                   *)
(***************************************************************************)
FallosP2 == {"no", "antes", "comp", "informe"}

\* eval(coords) of line 314 on the strings of the model; the other strings raise
Evaluable(txt) == txt \in {"(40, 3)", "(0.0, 0.0)"}

eval(txt) == IF txt = "(40, 3)" THEN Tupla(40, 3) ELSE Tupla(0, 0)

\* coords after lines 312-315
CoordsP2(c) ==
    IF c.tipo = "str" THEN (IF Evaluable(c.txt) THEN eval(c.txt) ELSE Tupla(0, 0)) ELSE c

\* the negation of the test of line 317, on the value lines 312-315 leave
CoordsValidasP2(coords) == EsTuplaOLista(CoordsP2(coords)) /\ Len(CoordsP2(coords).v) >= 2

\* what the reverse geocoder and the point-of-interest service hold around a point:
\* the candidate's surroundings at its real coordinates, nothing elsewhere
EnSuSitio(w, v) == v = <<w.lat, w.lon>>

\* the competitors of a candidate as (name, postal code) pairs
Competidores(w) == [j \in 1..Len(w.rivales) |-> <<w.rivales[j], w.cp>>]

\* obtener_cp_latlon(lat, lon)
CpEn(w, v) == IF EnSuSitio(w, v) THEN w.cp ELSE "00000"

\* obtener_competencia(lat, lon, radio, negocio, cp_zona)
CompetenciaEn(w, v) == IF EnSuSitio(w, v) THEN Competidores(w) ELSE <<>>

FilaP2Cps(cps, row, w, fallo) ==
    IF ~CoordsValidasP2(row.COORDENADAS) THEN Append(cps, "00000")
    ELSE LET cp_zona == CpEn(w, CoordsP2(row.COORDENADAS).v)
         IN  CASE fallo = "no"      -> Append(cps, cp_zona)
               [] fallo = "antes"   -> Append(cps, "00000")
               [] fallo = "comp"    -> Append(Append(cps, cp_zona), "00000")
               [] fallo = "informe" -> Append(Append(cps, cp_zona), "00000")

FilaP2Comp(comp, row, w, fallo) ==
    IF ~CoordsValidasP2(row.COORDENADAS) THEN Append(comp, <<>>)
    ELSE LET competidores == CompetenciaEn(w, CoordsP2(row.COORDENADAS).v)
         IN  CASE fallo = "no"      -> Append(comp, competidores)
               [] fallo = "antes"   -> Append(comp, <<>>)
               [] fallo = "comp"    -> Append(comp, <<>>)
               [] fallo = "informe" -> Append(Append(comp, competidores), <<>>)

\* a request a stage sends for the row at position fila, centred at the point en
Consulta(etapa, servicio, fila, en) ==
    [etapa |-> etapa, servicio |-> servicio, fila |-> fila, en |-> en]

\* the requests of one row: the reverse geocoding of line 324 and the competitor
\* search of line 330 (negocio is set), unless the row was skipped at line 317 or
\* failed before line 324
ConsultasFilaP2(pos, row, fallo) ==
    IF ~CoordsValidasP2(row.COORDENADAS) \/ fallo = "antes" THEN {}
    ELSE {Consulta("p2", "reverse", pos, CoordsP2(row.COORDENADAS).v),
          Consulta("p2", "overpass", pos, CoordsP2(row.COORDENADAS).v)}

\* df_2['CODIGO_POSTAL'] = lista_cps; df_2['COMPETENCIA'] = lista_comp
AsignarP2(df, cps, comp) ==
    [cols |-> df.cols \cup {"CODIGO_POSTAL", "COMPETENCIA"},
     rows |-> [i \in 1..Len(df.rows) |->
                  [df.rows[i] EXCEPT !.CODIGO_POSTAL = cps[i], !.COMPETENCIA = comp[i]]]]

(***************************************************************************)
(* p3_reputacion.analizar_reputacion, the metrics of one row.              *)
(***************************************************************************)
\* the names of the competitors that are looked up (lines 200-206)
RECURSIVE Buscados(_)
Buscados(lista) ==
    IF lista = <<>> THEN <<>>
    ELSE LET comp == Head(lista)
         IN  IF Len(comp) < 2 \/ NombreDescartado(comp[1]) THEN Buscados(Tail(lista))
             ELSE <<comp[1]>> \o Buscados(Tail(lista))

\* the ratings that were resolved, in lookup order
RECURSIVE Notas(_)
Notas(nombres) ==
    IF nombres = <<>> THEN <<>>
    ELSE LET nota == Opiniones(Head(nombres))
         IN  IF nota # SinNota THEN <<nota>> \o Notas(Tail(nombres)) ELSE Notas(Tail(nombres))

\* mutant: a rating equal to the threshold counts as good
EsBueno_Inclusivo(nota) == nota >= UMBRAL_BUENO

EsBueno(nota) == nota > UMBRAL_BUENO

Buenos(notas) == Cardinality({j \in 1..Len(notas) : EsBueno(notas[j])})

\* mutant: the else of line 215 is lost, every resolved rating is counted as bad
Malos_SinElse(notas) == Len(notas)

Malos(notas) == Cardinality({j \in 1..Len(notas) : ~EsBueno(notas[j])})

\* round(suma_notas / con_nota, 2) in hundredths, 0.0 when nothing was resolved
NotaMedia(notas) ==
    IF Len(notas) > 0 THEN RoundHalfEven(10 * SumSeq(notas), Len(notas)) ELSE 0

\* metricas = (total, buenos, malos, nota_media)
Metricas(lista_competidores) ==
    LET notas == Notas(Buscados(lista_competidores))
    IN  <<Len(lista_competidores), Buenos(notas), Malos(notas), NotaMedia(notas)>>

MetricasVacias == <<0, 0, 0, 0>>

\* the while loop of lines 237-238
RECURSIVE Rellenar(_, _)
Rellenar(res, n) == IF Len(res) < n THEN Rellenar(Append(res, MetricasVacias), n) ELSE res

\* mutant: the assignment also resets the competitor lists
AsignarP3_BorraCompetencia(df, res) ==
    [cols |-> df.cols \cup {"NUM_COMPETENCIA"},
     rows |-> [i \in 1..Len(df.rows) |->
                  [df.rows[i] EXCEPT !.NUM_COMPETENCIA = res[i], !.COMPETENCIA = <<>>]]]

\* df_3['NUM_COMPETENCIA'] = resultados_metricas
AsignarP3(df, res) ==
    [cols |-> df.cols \cup {"NUM_COMPETENCIA"},
     rows |-> [i \in 1..Len(df.rows) |-> [df.rows[i] EXCEPT !.NUM_COMPETENCIA = res[i]]]]

(***************************************************************************)
(* p4_transporte.analizar_transporte, one row of its loop.                 *)
(***************************************************************************)
TransporteVacio == <<0, 0, 0>>

MAX_RETRIES == 3

\* what one request to the bike-share service can give.  Catalogue: the request
\* raises ("excepcion"), the status is not 200 ("no200"), or the catalogue is
\* processed to the end and a network was selected ("red") or none ("sin_red").
\* Stations of the selected network: "excepcion", "no200", or the list ("ok").
RespuestasCatalogo == {"excepcion", "no200", "sin_red", "red"}

RespuestasEstaciones == {"excepcion", "no200", "ok"}

\* the service answers every request
RedDisponible ==
    [catalogo |-> [i \in 1..MAX_RETRIES |-> "red"], estaciones |-> [i \in 1..MAX_RETRIES |-> "ok"]]

\* the stations of the selected network
Estaciones == <<"estaciones de la red">>

\* mutant: the loop is not left after a successful response
Intentos_SinBreak(resp, hecho) == MAX_RETRIES

\* the attempts of a retry loop: it is left at the first answer in hecho (break or
\* return), and after MAX_RETRIES attempts otherwise
Intentos(resp, hecho) ==
    IF \E i \in 1..MAX_RETRIES : resp[i] \in hecho
    THEN Min({i \in 1..MAX_RETRIES : resp[i] \in hecho})
    ELSE MAX_RETRIES

\* the loop of lines 137-175: the requests it sends and mejor_red after it
IntentosCatalogo(r) == Intentos(r.catalogo, {"sin_red", "red"})

mejor_red(r) == r.catalogo[IntentosCatalogo(r)] = "red"

\* the loop of lines 190-198, entered when a network was selected
IntentosEstaciones(r) == IF mejor_red(r) THEN Intentos(r.estaciones, {"ok"}) ELSE 0

\* detectar_y_obtener_estaciones(lat_ref, lon_ref, ciudad)
detectar_y_obtener_estaciones(r) ==
    IF mejor_red(r) /\ r.estaciones[IntentosEstaciones(r)] = "ok" THEN Estaciones ELSE <<>>

\* the requests detectar_y_obtener_estaciones sends, numbered in order
ConsultasRed(r, ref) ==
    {Consulta("p4", "catalogo", i, ref) : i \in 1..IntentosCatalogo(r)}
       \cup {Consulta("p4", "estaciones", i, ref) : i \in 1..IntentosEstaciones(r)}

\* every pair taken as a reference, the sentinel too
Referencias_Todas(df) ==
    {i \in 1..Len(df.rows) :
        EsTuplaOLista(df.rows[i].COORDENADAS) /\ Len(df.rows[i].COORDENADAS.v) = 2}

\* lines 223-227: the candidates whose coordinates can locate the network
Referencias(df) ==
    {i \in 1..Len(df.rows) :
        /\ EsTuplaOLista(df.rows[i].COORDENADAS)
        /\ Len(df.rows[i].COORDENADAS.v) = 2
        /\ df.rows[i].COORDENADAS.v[1] # 0}

\* the negation of the test of line 242: coords == (0,0) is true of the tuple
\* (0.0, 0.0) and false of the list [0, 0]
CoordsValidasP4(coords) ==
    /\ EsTuplaOLista(coords)
    /\ Len(coords.v) >= 2
    /\ ~(coords.tipo = "tuple" /\ coords.v = <<0, 0>>)

\* contar_osm(lat, lon)
contar_osm(w, v) == IF EnSuSitio(w, v) THEN <<w.trans[1], w.trans[2]>> ELSE <<0, 0>>

\* the loop of lines 252-256: w.trans[3] of the stations of the network are
\* within RADIO_BICIS of the candidate
n_bicis(w, v, est) == IF est # <<>> /\ EnSuSitio(w, v) THEN w.trans[3] ELSE 0

\* fallo: an exception between contar_osm and columna_transporte.append (lines 249-258)
FilaP4(col, row, w, est, fallo) ==
    IF ~CoordsValidasP4(row.COORDENADAS) THEN Append(col, TransporteVacio)
    ELSE IF fallo THEN Append(col, TransporteVacio)
    ELSE Append(col, contar_osm(w, row.COORDENADAS.v) \o <<n_bicis(w, row.COORDENADAS.v, est)>>)

\* the request of one row: contar_osm at line 249, unless the row was skipped
ConsultasFilaP4(pos, row) ==
    IF ~CoordsValidasP4(row.COORDENADAS) THEN {}
    ELSE {Consulta("p4", "overpass", pos, row.COORDENADAS.v)}

\* df_4['NUM_TRANS_PUB'] = columna_transporte
AsignarP4(df, col) ==
    [cols |-> df.cols \cup {"NUM_TRANS_PUB"},
     rows |-> [i \in 1..Len(df.rows) |-> [df.rows[i] EXCEPT !.NUM_TRANS_PUB = col[i]]]]

(***************************************************************************)
(* app.calcular_puntuacion.  The three lists of raw values are built in    *)
(* positional order (lines 90-106); the loop of lines 113-140 reads them   *)
(* with the index label of the row, scores_transporte[i] being the entry   *)
(* at position i + 1 of the list.                                          *)
(***************************************************************************)
NFilas(df) == Len(df.rows)

precios(df) == [i \in 1..NFilas(df) |-> df.rows[i].PRECIO]

\* mutant: the ceiling of the scale is the budget
max_precio_Presupuesto(df, presupuesto_max) == presupuesto_max

max_precio(df, presupuesto_max) ==
    IF NFilas(df) > 0 THEN Max(Rango(precios(df))) ELSE presupuesto_max

min_precio(df) == IF NFilas(df) > 0 THEN Min(Rango(precios(df))) ELSE 0

\* val = t[0]*1 + t[1]*3 + t[2]*1
ValTransporte(t) == (t[1] * 1) + (t[2] * 3) + (t[3] * 1)

scores_transporte(df) == [i \in 1..NFilas(df) |-> ValTransporte(df.rows[i].NUM_TRANS_PUB)]

\* mutant: the raw value is not normalised against the maximum of the set
max_transporte_SinNormalizar(df) == 1

max_transporte(df) ==
    IF NFilas(df) > 0 /\ Max(Rango(scores_transporte(df))) > 0
    THEN Max(Rango(scores_transporte(df))) ELSE 1

\* mutant: the well-rated rivals are not subtracted
ValOportunidad2_SinBuenos(c) == (c[3] * 4) + c[1]

\* twice val = malos*2 + total*0.5 - buenos*3, to stay in the integers
ValOportunidad2(c) == (c[3] * 4) + c[1] - (c[2] * 6)

scores_oportunidad2(df) ==
    [i \in 1..NFilas(df) |-> ValOportunidad2(df.rows[i].NUM_COMPETENCIA)]

max_oport2(df) == IF NFilas(df) > 0 THEN Max(Rango(scores_oportunidad2(df))) ELSE 2

min_oport2(df) == IF NFilas(df) > 0 THEN Min(Rango(scores_oportunidad2(df))) ELSE 0

\* twice rango_oport
rango_oport2(df) ==
    IF max_oport2(df) # min_oport2(df) THEN max_oport2(df) - min_oport2(df) ELSE 2

\* a Python list of length n read at index i: IndexError outside -n .. n-1
IndiceValido(i, n) == -n <= i /\ i < n

Posicion(i, n) == IF i >= 0 THEN i + 1 ELSE n + i + 1

\* no row label makes scores_transporte[i] raise
Puntuable(df) == \A j \in 1..NFilas(df) : IndiceValido(df.rows[j].idx, NFilas(df))

nota_precio(df, row, presupuesto_max) ==
    IF max_precio(df, presupuesto_max) = min_precio(df) THEN <<10, 1>>
    ELSE <<10 * (max_precio(df, presupuesto_max) - row.PRECIO),
           max_precio(df, presupuesto_max) - min_precio(df)>>

nota_conec(df, row) ==
    <<10 * scores_transporte(df)[Posicion(row.idx, NFilas(df))], max_transporte(df)>>

nota_oport(df, row) ==
    <<10 * (scores_oportunidad2(df)[Posicion(row.idx, NFilas(df))] - min_oport2(df)),
      rango_oport2(df)>>

\* mutant: the switch looks at the competition of the whole set
hay_competencia_DelConjunto(df, row) ==
    \E j \in 1..NFilas(df) : df.rows[j].NUM_COMPETENCIA[1] > 0

hay_competencia(df, row) == row.NUM_COMPETENCIA[1] > 0

\* 100 * nota_final as an exact fraction
nota_final(df, row, presupuesto_max) ==
    IF hay_competencia(df, row)
    THEN FAdd(FAdd(FMul(40, nota_precio(df, row, presupuesto_max)),
                   FMul(30, nota_oport(df, row))),
              FMul(30, nota_conec(df, row)))
    ELSE FAdd(FAdd(FMul(50, nota_precio(df, row, presupuesto_max)),
                   FMul(50, nota_conec(df, row))),
              <<-200, 1>>)

\* round(nota_final, 2), in hundredths
Redondear2(f) == RoundHalfEven(f[1], f[2])

notas(df, presupuesto_max) ==
    [j \in 1..NFilas(df) |-> Redondear2(nota_final(df, df.rows[j], presupuesto_max))]

\* df['NOTA_FINAL'] = notas; return df
calcular_puntuacion(df, presupuesto_max) ==
    [cols |-> df.cols \cup {"NOTA_FINAL"},
     rows |-> [j \in 1..NFilas(df) |->
                  [df.rows[j] EXCEPT !.NOTA_FINAL = notas(df, presupuesto_max)[j]]]]

(***************************************************************************)
(* DataFrame.sort_values(by='NOTA_FINAL', ascending=False).  The call      *)
(* names no kind, so pandas sorts with its default 'quicksort', which is   *)
(* not a stable sort: the order of rows with equal scores is whatever the  *)
(* build produces.  Every row keeps its index label.                       *)
(***************************************************************************)
Permutaciones(n) == {p \in [1..n -> 1..n] : \A i, j \in 1..n : p[i] = p[j] => i = j}

Reordenar(df, p) == [cols |-> df.cols, rows |-> [j \in 1..NFilas(df) |-> df.rows[p[j]]]]

Descendente(df) ==
    \A i, j \in 1..NFilas(df) : i < j => df.rows[i].NOTA_FINAL >= df.rows[j].NOTA_FINAL

sort_values(df) == {Reordenar(df, p) : p \in {q \in Permutaciones(NFilas(df)) : Descendente(Reordenar(df, q))}}

\* the budget the user typed in (obtener_inputs); p1 keeps only prices up to it
presupuesto == Max(Precios)

(***************************************************************************)
(* app.main: the order of the stages and the table each one is given.      *)
(***************************************************************************)
\* mutant: main goes from the competitor search straight to the transport stage
Siguiente_SinReputacion(etapa) ==
    CASE etapa = "p1"    -> "p2"
      [] etapa = "p2"    -> "p4"
      [] etapa = "p3"    -> "p4"
      [] etapa = "p4"    -> "score"
      [] etapa = "score" -> "sort"
      [] etapa = "sort"  -> "export"
      [] OTHER           -> "done"

\* where main goes when the stage at pc has returned (lines 163-190)
Siguiente(etapa) ==
    CASE etapa = "p1"    -> "p2"
      [] etapa = "p2"    -> "p3"
      [] etapa = "p3"    -> "p4"
      [] etapa = "p4"    -> "score"
      [] etapa = "score" -> "sort"
      [] etapa = "sort"  -> "export"
      [] OTHER           -> "done"

\* the local main passes to the stage (lines 169, 172, 175, 178, 181, 190)
Argumento(etapa) ==
    CASE etapa = "p2"    -> loc.df_1
      [] etapa = "p3"    -> loc.df_2
      [] etapa = "p4"    -> loc.df_3
      [] etapa = "score" -> loc.df_4
      [] OTHER           -> loc.df_final

Llamada(fn, arg) == [fn |-> fn, arg |-> arg]

Init ==
    /\ pc = "p1"
    /\ world \in Mundos
    /\ loc = [df_1 |-> NoDF, df_2 |-> NoDF, df_3 |-> NoDF, df_4 |-> NoDF,
              df_final |-> NoDF, df_perm |-> NoDF]
    /\ calls = <<>>
    /\ rets = <<>>
    /\ dfw = NoDF
    /\ k = 0
    /\ lista_cps = <<>>
    /\ lista_comp = <<>>
    /\ resultados_metricas = <<>>
    /\ columna_transporte = <<>>
    /\ fallos = {}
    /\ driver = "sin iniciar"
    /\ consultas = {}
    /\ red = RedDisponible
    /\ estaciones_bicis = <<>>
    /\ entrada = <<>>
    /\ salida = <<>>

\* df_1 = p1.busqueda(...) (line 163)
MainBusqueda ==
    /\ pc = "p1"
    /\ loc' = [loc EXCEPT !.df_1 = busqueda(world)]
    /\ calls' = Append(calls, Llamada("busqueda", NoDF))
    /\ rets' = Append(rets, busqueda(world))
    /\ pc' = Siguiente("p1")
    /\ UNCHANGED <<world, dfw, k, lista_cps, lista_comp, resultados_metricas,
                   columna_transporte, fallos, driver>>
    /\ UNCHANGED <<consultas, red, estaciones_bicis, entrada, salida>>

\* if df_1.empty: print(...); return (lines 164-166)
MainVacio ==
    /\ pc = "p2"
    /\ Empty(loc.df_1)
    /\ pc' = "halt"
    /\ UNCHANGED <<world, loc, calls, rets, dfw, k, lista_cps, lista_comp,
                   resultados_metricas, columna_transporte, fallos, driver>>
    /\ UNCHANGED <<consultas, red, estaciones_bicis, entrada, salida>>

(***************************************************************************)
(* busqueda_competencia (p2_competencia.py, lines 285-344)                 *)
(***************************************************************************)
P2Begin ==
    /\ pc = "p2"
    /\ ~Empty(loc.df_1)
    /\ calls' = Append(calls, Llamada("busqueda_competencia", Argumento("p2")))
    /\ dfw' = Argumento("p2")
    /\ IF Empty(Argumento("p2"))
       THEN /\ loc' = [loc EXCEPT !.df_2 = Argumento("p2")]
            /\ rets' = Append(rets, Argumento("p2"))
            /\ pc' = Siguiente("p2")
            /\ UNCHANGED <<k, lista_cps, lista_comp>>
       ELSE /\ lista_cps' = <<>>
            /\ lista_comp' = <<>>
            /\ k' = 1
            /\ pc' = "p2_loop"
            /\ UNCHANGED <<loc, rets>>
    /\ UNCHANGED <<world, resultados_metricas, columna_transporte, fallos, driver>>
    /\ UNCHANGED <<consultas, red, estaciones_bicis, entrada, salida>>

P2Row ==
    /\ pc = "p2_loop"
    /\ k <= NFilas(dfw)
    /\ \E fallo \in FallosP2 :
          /\ lista_cps' = FilaP2Cps(lista_cps, dfw.rows[k], world[dfw.rows[k].NUMERO], fallo)
          /\ lista_comp' = FilaP2Comp(lista_comp, dfw.rows[k], world[dfw.rows[k].NUMERO], fallo)
          /\ fallos' = IF fallo = "no" THEN fallos ELSE fallos \cup {<<"p2", k>>}
          /\ consultas' = consultas \cup ConsultasFilaP2(k, dfw.rows[k], fallo)
    /\ k' = k + 1
    /\ UNCHANGED <<pc, world, loc, calls, rets, dfw, resultados_metricas,
                   columna_transporte, driver>>
    /\ UNCHANGED <<red, estaciones_bicis, entrada, salida>>

\* lines 340-344: the two column assignments, ValueError on a length mismatch
P2End ==
    /\ pc = "p2_loop"
    /\ k > NFilas(dfw)
    /\ IF AssignOk(dfw, lista_cps) /\ AssignOk(dfw, lista_comp)
       THEN /\ loc' = [loc EXCEPT !.df_2 = AsignarP2(dfw, lista_cps, lista_comp)]
            /\ rets' = Append(rets, AsignarP2(dfw, lista_cps, lista_comp))
            /\ pc' = Siguiente("p2")
       ELSE /\ pc' = "crash"
            /\ UNCHANGED <<loc, rets>>
    /\ UNCHANGED <<world, calls, dfw, k, lista_cps, lista_comp, resultados_metricas,
                   columna_transporte, fallos, driver>>
    /\ UNCHANGED <<consultas, red, estaciones_bicis, entrada, salida>>

(***************************************************************************)
(* analizar_reputacion (p3_reputacion.py, lines 152-242)                   *)
(***************************************************************************)
\* "antes": an exception (or Ctrl-C) before resultados_metricas.append;
\* "despues": one after it (line 228, or Ctrl-C)
FallosP3 == {"no", "antes", "despues"}

\* the browser is left as it is
quit_SinCerrar(d) == d

\* driver.quit() (line 235) on the browser of line 175: the model tells a browser
\* closed once from one that quit was called on again
quit(d) == IF d = "abierto" THEN "cerrado" ELSE "cerrado otra vez"

P3Begin ==
    /\ pc = "p3"
    /\ calls' = Append(calls, Llamada("analizar_reputacion", Argumento("p3")))
    /\ dfw' = Argumento("p3")
    /\ IF Empty(Argumento("p3"))
       THEN /\ loc' = [loc EXCEPT !.df_3 = AsignarP3(Argumento("p3"), <<>>)]
            /\ rets' = Append(rets, AsignarP3(Argumento("p3"), <<>>))
            /\ pc' = Siguiente("p3")
            /\ UNCHANGED <<k, resultados_metricas, driver>>
       ELSE /\ driver' = "abierto"
            /\ resultados_metricas' = <<>>
            /\ k' = 1
            /\ pc' = "p3_loop"
            /\ UNCHANGED <<loc, rets>>
    /\ UNCHANGED <<world, lista_cps, lista_comp, columna_transporte, fallos>>
    /\ UNCHANGED <<consultas, red, estaciones_bicis, entrada, salida>>

\* one iteration of the loop; an exception leaves the loop through the handlers
\* of lines 230-233 and the finally of line 235
P3Row ==
    /\ pc = "p3_loop"
    /\ k <= NFilas(dfw)
    /\ \E fallo \in FallosP3 :
          /\ resultados_metricas' =
                IF fallo = "antes" THEN resultados_metricas
                ELSE Append(resultados_metricas, Metricas(dfw.rows[k].COMPETENCIA))
          /\ IF fallo = "no"
             THEN /\ k' = k + 1
                  /\ UNCHANGED <<pc, driver, fallos>>
             ELSE /\ fallos' = fallos \cup {<<"p3", k>>}
                  /\ driver' = quit(driver)
                  /\ pc' = "p3_fin"
                  /\ UNCHANGED k
    /\ UNCHANGED <<world, loc, calls, rets, dfw, lista_cps, lista_comp, columna_transporte>>
    /\ UNCHANGED <<consultas, red, estaciones_bicis, entrada, salida>>

\* the loop ends without an exception: finally (line 235)
P3Salir ==
    /\ pc = "p3_loop"
    /\ k > NFilas(dfw)
    /\ driver' = quit(driver)
    /\ pc' = "p3_fin"
    /\ UNCHANGED <<world, loc, calls, rets, dfw, k, lista_cps, lista_comp,
                   resultados_metricas, columna_transporte, fallos>>
    /\ UNCHANGED <<consultas, red, estaciones_bicis, entrada, salida>>

\* lines 237-242
P3End ==
    /\ pc = "p3_fin"
    /\ resultados_metricas' = Rellenar(resultados_metricas, NFilas(dfw))
    /\ IF AssignOk(dfw, resultados_metricas')
       THEN /\ loc' = [loc EXCEPT !.df_3 = AsignarP3(dfw, resultados_metricas')]
            /\ rets' = Append(rets, AsignarP3(dfw, resultados_metricas'))
            /\ pc' = Siguiente("p3")
       ELSE /\ pc' = "crash"
            /\ UNCHANGED <<loc, rets>>
    /\ UNCHANGED <<world, calls, dfw, k, lista_cps, lista_comp, columna_transporte,
                   fallos, driver>>
    /\ UNCHANGED <<consultas, red, estaciones_bicis, entrada, salida>>

(***************************************************************************)
(* analizar_transporte (p4_transporte.py, lines 214-267).  The stations of *)
(* the bike network are fetched once before the loop; world[i].trans[3] is *)
(* the number of them within RADIO_BICIS of candidate i.                   *)
(***************************************************************************)
P4Begin ==
    /\ pc = "p4"
    /\ calls' = Append(calls, Llamada("analizar_transporte", Argumento("p4")))
    /\ dfw' = Argumento("p4")
    /\ IF Empty(Argumento("p4"))
       THEN /\ loc' = [loc EXCEPT !.df_4 = AsignarP4(Argumento("p4"), <<>>)]
            /\ rets' = Append(rets, AsignarP4(Argumento("p4"), <<>>))
            /\ pc' = Siguiente("p4")
            /\ UNCHANGED <<k, columna_transporte, estaciones_bicis, consultas>>
       ELSE /\ IF Referencias(Argumento("p4")) # {}
               THEN /\ estaciones_bicis' = detectar_y_obtener_estaciones(red)
                    /\ consultas' = consultas \cup
                          ConsultasRed(red, Argumento("p4").rows[
                              Min(Referencias(Argumento("p4")))].COORDENADAS.v)
               ELSE /\ estaciones_bicis' = <<>>
                    /\ UNCHANGED consultas
            /\ columna_transporte' = <<>>
            /\ k' = 1
            /\ pc' = "p4_loop"
            /\ UNCHANGED <<loc, rets>>
    /\ UNCHANGED <<world, lista_cps, lista_comp, resultados_metricas, fallos, driver>>
    /\ UNCHANGED <<red, entrada, salida>>

P4Row ==
    /\ pc = "p4_loop"
    /\ k <= NFilas(dfw)
    /\ \E fallo \in BOOLEAN :
          /\ columna_transporte' =
                FilaP4(columna_transporte, dfw.rows[k], world[dfw.rows[k].NUMERO],
                       estaciones_bicis, fallo)
          /\ fallos' = IF fallo THEN fallos \cup {<<"p4", k>>} ELSE fallos
    /\ consultas' = consultas \cup ConsultasFilaP4(k, dfw.rows[k])
    /\ k' = k + 1
    /\ UNCHANGED <<pc, world, loc, calls, rets, dfw, lista_cps, lista_comp,
                   resultados_metricas, driver>>
    /\ UNCHANGED <<red, estaciones_bicis, entrada, salida>>

P4End ==
    /\ pc = "p4_loop"
    /\ k > NFilas(dfw)
    /\ IF AssignOk(dfw, columna_transporte)
       THEN /\ loc' = [loc EXCEPT !.df_4 = AsignarP4(dfw, columna_transporte)]
            /\ rets' = Append(rets, AsignarP4(dfw, columna_transporte))
            /\ pc' = Siguiente("p4")
       ELSE /\ pc' = "crash"
            /\ UNCHANGED <<loc, rets>>
    /\ UNCHANGED <<world, calls, dfw, k, lista_cps, lista_comp, resultados_metricas,
                   columna_transporte, fallos, driver>>
    /\ UNCHANGED <<consultas, red, estaciones_bicis, entrada, salida>>

(***************************************************************************)
(* main, lines 178-190                                                     *)
(***************************************************************************)
\* df_final = calcular_puntuacion(df_4, presupuesto): df_4 is scored in place and
\* df_final is the same table
MainPuntuar ==
    /\ pc = "score"
    /\ calls' = Append(calls, Llamada("calcular_puntuacion", Argumento("score")))
    /\ IF Puntuable(Argumento("score"))
       THEN /\ loc' = [loc EXCEPT !.df_4 = calcular_puntuacion(Argumento("score"), presupuesto),
                                  !.df_final = calcular_puntuacion(Argumento("score"), presupuesto)]
            /\ rets' = Append(rets, calcular_puntuacion(Argumento("score"), presupuesto))
            /\ pc' = Siguiente("score")
       ELSE /\ pc' = "crash"
            /\ UNCHANGED <<loc, rets>>
    /\ UNCHANGED <<world, dfw, k, lista_cps, lista_comp, resultados_metricas,
                   columna_transporte, fallos, driver>>
    /\ UNCHANGED <<consultas, red, estaciones_bicis, entrada, salida>>

\* df_final = df_final.sort_values(by='NOTA_FINAL', ascending=False)
MainOrdenar ==
    /\ pc = "sort"
    /\ calls' = Append(calls, Llamada("sort_values", Argumento("sort")))
    /\ \E d \in sort_values(Argumento("sort")) :
          /\ loc' = [loc EXCEPT !.df_final = d]
          /\ rets' = Append(rets, d)
    /\ pc' = Siguiente("sort")
    /\ UNCHANGED <<world, dfw, k, lista_cps, lista_comp, resultados_metricas,
                   columna_transporte, fallos, driver>>
    /\ UNCHANGED <<consultas, red, estaciones_bicis, entrada, salida>>

\* df_final.to_csv(...)
MainExportar ==
    /\ pc = "export"
    /\ calls' = Append(calls, Llamada("to_csv", Argumento("export")))
    /\ pc' = Siguiente("export")
    /\ UNCHANGED <<world, loc, rets, dfw, k, lista_cps, lista_comp, resultados_metricas,
                   columna_transporte, fallos, driver>>
    /\ UNCHANGED <<consultas, red, estaciones_bicis, entrada, salida>>

Next ==
    \/ MainBusqueda
    \/ MainVacio
    \/ P2Begin
    \/ P2Row
    \/ P2End
    \/ P3Begin
    \/ P3Row
    \/ P3Salir
    \/ P3End
    \/ P4Begin
    \/ P4Row
    \/ P4End
    \/ MainPuntuar
    \/ MainOrdenar
    \/ MainExportar

Spec == Init /\ [][Next]_vars

(***************************************************************************)
(* Claims about the pipeline (specification Spec)                          *)
(***************************************************************************)
SinFallo(etapa, i) == <<etapa, i>> \notin fallos

Devuelta(df) == df # NoDF

\* C1: in each enrichment stage a failure while processing one candidate degrades
\* only that candidate: every candidate at which the stage saw no failure, also
\* those after the failing one, has in the returned table the values it would
\* have received without the failure.
C1_FalloAislado ==
    /\ Devuelta(loc.df_2) =>
          \A i \in 1..NFilas(loc.df_2) :
             SinFallo("p2", i) =>
                /\ loc.df_2.rows[i].CODIGO_POSTAL = world[loc.df_2.rows[i].NUMERO].cp
                /\ loc.df_2.rows[i].COMPETENCIA = Competidores(world[loc.df_2.rows[i].NUMERO])
    /\ Devuelta(loc.df_3) =>
          \A i \in 1..NFilas(loc.df_3) :
             SinFallo("p3", i) =>
                loc.df_3.rows[i].NUM_COMPETENCIA = Metricas(loc.df_2.rows[i].COMPETENCIA)
    /\ Devuelta(loc.df_4) =>
          \A i \in 1..NFilas(loc.df_4) :
             SinFallo("p4", i) =>
                loc.df_4.rows[i].NUM_TRANS_PUB = world[loc.df_4.rows[i].NUMERO].trans

\* C2: the per-candidate result lists of every enrichment stage hold exactly one
\* entry per processed candidate, wherever in the per-candidate processing a
\* failure occurs, so the stage returns and every candidate has one well-formed
\* value for each field of the stage.
C2_UnaEntradaPorCandidato ==
    /\ pc = "p2_loop" => Len(lista_cps) = k - 1 /\ Len(lista_comp) = k - 1
    /\ pc = "p3_loop" => Len(resultados_metricas) = k - 1
    /\ pc = "p4_loop" => Len(columna_transporte) = k - 1
    /\ pc # "crash"
    /\ Devuelta(loc.df_2) =>
          \A i \in 1..NFilas(loc.df_2) : loc.df_2.rows[i].CODIGO_POSTAL # ""
    /\ Devuelta(loc.df_3) =>
          \A i \in 1..NFilas(loc.df_3) : Len(loc.df_3.rows[i].NUM_COMPETENCIA) = 4
    /\ Devuelta(loc.df_4) =>
          \A i \in 1..NFilas(loc.df_4) : Len(loc.df_4.rows[i].NUM_TRANS_PUB) = 3

BuenosMalosTotal(m) == m[2] + m[3] <= m[1]

\* C3: after analizar_reputacion every candidate's metrics (total, good, bad,
\* mean) satisfy good + bad <= total, also the entries collected so far and the
\* entries filled in after a failure.
C3_BuenosMasMalos ==
    /\ \A j \in 1..Len(resultados_metricas) : BuenosMalosTotal(resultados_metricas[j])
    /\ \A t \in {"df_3", "df_4", "df_final"} :
          Devuelta(loc[t]) =>
             \A i \in 1..NFilas(loc[t]) : BuenosMalosTotal(loc[t].rows[i].NUM_COMPETENCIA)

\* a returned table with a candidate that has an unrated competitor (good + bad <
\* total), a candidate with a good and a bad competitor, after a failure in the stage
C3_Testigo ==
    /\ Devuelta(loc.df_3)
    /\ \E i \in 1..NFilas(loc.df_3) :
          LET m == loc.df_3.rows[i].NUM_COMPETENCIA IN m[1] > 0 /\ m[2] + m[3] < m[1]
    /\ \E i \in 1..NFilas(loc.df_3) :
          LET m == loc.df_3.rows[i].NUM_COMPETENCIA IN m[2] > 0 /\ m[3] > 0
    /\ \E i \in 1..NFilas(loc.df_3) : ~SinFallo("p3", i)

OrdenEtapas ==
    <<"busqueda", "busqueda_competencia", "analizar_reputacion", "analizar_transporte",
      "calcular_puntuacion", "sort_values", "to_csv">>

\* C9: main calls the stages in the order collection, competitor search,
\* reputation, transport, scoring, ranking, export: the calls made so far are a
\* prefix of that order (none skipped, none twice), and every call is made after
\* the previous one has returned, with the value it returned as argument.
C9_OrdenDeEtapas ==
    /\ Len(calls) <= Len(OrdenEtapas)
    /\ \A j \in 1..Len(calls) : calls[j].fn = OrdenEtapas[j]
    /\ \A j \in 2..Len(calls) : Len(rets) >= j - 1 /\ calls[j].arg = rets[j - 1]

\* a run with candidates that went through every stage
C9_Testigo ==
    /\ pc = "done"
    /\ ~Empty(loc.df_1)
    /\ Len(calls) = Len(OrdenEtapas)
    /\ fallos # {}

\* C10: with no candidates main halts and calls nothing after the collection; an
\* empty candidate set is the only thing that stops main before the ranking.
C10_SoloVacioDetiene ==
    /\ pc = "halt" => Empty(loc.df_1) /\ Len(calls) = 1
    /\ (Devuelta(loc.df_1) /\ Empty(loc.df_1)) => pc \in {"p2", "halt"}
    /\ pc \in {"halt", "crash"} => Empty(loc.df_1)

\* the value a row holds in a column
Campo(row, c) ==
    CASE c = "NUMERO"          -> row.NUMERO
      [] c = "NOMBRE"          -> row.NOMBRE
      [] c = "DIRECCION"       -> row.DIRECCION
      [] c = "COORDENADAS"     -> row.COORDENADAS
      [] c = "PRECIO"          -> row.PRECIO
      [] c = "LINK"            -> row.LINK
      [] c = "CODIGO_POSTAL"   -> row.CODIGO_POSTAL
      [] c = "COMPETENCIA"     -> row.COMPETENCIA
      [] c = "NUM_COMPETENCIA" -> row.NUM_COMPETENCIA
      [] c = "NUM_TRANS_PUB"   -> row.NUM_TRANS_PUB
      [] c = "NOTA_FINAL"      -> row.NOTA_FINAL

EtapasAditivas ==
    {"busqueda_competencia", "analizar_reputacion", "analizar_transporte", "calcular_puntuacion"}

\* the table a stage returned has the rows of its argument, each with every column
\* of the argument at the value it had, and the columns it adds are new ones
SoloAnade(arg, ret) ==
    /\ NFilas(ret) = NFilas(arg)
    /\ arg.cols \subseteq ret.cols
    /\ ret.cols # arg.cols
    /\ \A i \in 1..NFilas(arg) :
          /\ ret.rows[i].idx = arg.rows[i].idx
          /\ \A c \in arg.cols : Campo(ret.rows[i], c) = Campo(arg.rows[i], c)

\* C13: busqueda_competencia, analizar_reputacion, analizar_transporte and
\* calcular_puntuacion are strictly additive: every field a candidate had before the
\* stage ran has the same value after it, and the stage writes only fields that
\* were not set.
C13_EtapasAditivas ==
    \A j \in 1..Len(rets) :
       calls[j].fn \in EtapasAditivas => SoloAnade(calls[j].arg, rets[j])

\* the four stages have returned, a candidate has competitors, and a lookup failed
C13_Testigo ==
    /\ pc = "sort"
    /\ fallos # {}
    /\ \E i \in 1..NFilas(loc.df_4) : loc.df_4.rows[i].COMPETENCIA # <<>>
    /\ \A e \in EtapasAditivas : \E j \in 1..Len(rets) : calls[j].fn = e

(***************************************************************************)
(* The scoring engine on its own (specification SpecPuntuacion): main at   *)
(* line 178 with the table the three stages return for a candidate set,    *)
(* then the scoring, the ranking, and the engine run again on a table it   *)
(* has scored: the one main holds (df_4), the ranking (df_final), or df_4  *)
(* with its rows in another order (df_perm).                               *)
(***************************************************************************)
PreciosPuntuacion == {100, 150, 200}

RivalesPuntuacion == {<<>>, <<"Bar Bueno", "Bar Oculto">>, <<"Bar Malo", "Bar Bueno">>}

TransportesPuntuacion == {<<0, 0, 0>>, <<2, 1, 0>>}

PerfilesPuntuacion ==
    {Perfil(p, r, t) : p \in PreciosPuntuacion, r \in RivalesPuntuacion,
                       t \in TransportesPuntuacion}

MundosPuntuacion == UNION {[1..n -> PerfilesPuntuacion] : n \in 1..MaxCand}

\* the tables main holds at line 178 when no lookup failed
Tabla2(w) ==
    AsignarP2(busqueda(w), [i \in 1..Len(w) |-> w[i].cp],
              [i \in 1..Len(w) |-> Competidores(w[i])])

Tabla3(w) ==
    AsignarP3(Tabla2(w), [i \in 1..Len(w) |-> Metricas(Tabla2(w).rows[i].COMPETENCIA)])

Tabla4(w) == AsignarP4(Tabla3(w), [i \in 1..Len(w) |-> w[i].trans])

\* the requests of that run
ConsultasSinFallo(w) ==
    UNION {ConsultasFilaP2(i, busqueda(w).rows[i], "no") \cup ConsultasFilaP4(i, busqueda(w).rows[i])
              : i \in 1..Len(w)}
       \cup ConsultasRed(RedDisponible, <<w[1].lat, w[1].lon>>)

InitPuntuacion ==
    /\ pc = "score"
    /\ world \in MundosPuntuacion
    /\ loc = [df_1 |-> busqueda(world), df_2 |-> Tabla2(world), df_3 |-> Tabla3(world),
              df_4 |-> Tabla4(world), df_final |-> NoDF, df_perm |-> NoDF]
    /\ calls = <<Llamada("busqueda", NoDF),
                 Llamada("busqueda_competencia", busqueda(world)),
                 Llamada("analizar_reputacion", Tabla2(world)),
                 Llamada("analizar_transporte", Tabla3(world))>>
    /\ rets = <<busqueda(world), Tabla2(world), Tabla3(world), Tabla4(world)>>
    /\ dfw = Tabla3(world)
    /\ k = Len(world) + 1
    /\ lista_cps = [i \in 1..Len(world) |-> world[i].cp]
    /\ lista_comp = [i \in 1..Len(world) |-> Competidores(world[i])]
    /\ resultados_metricas = [i \in 1..Len(world) |-> Tabla3(world).rows[i].NUM_COMPETENCIA]
    /\ columna_transporte = [i \in 1..Len(world) |-> world[i].trans]
    /\ fallos = {}
    /\ driver = "cerrado"
    /\ consultas = ConsultasSinFallo(world)
    /\ red = RedDisponible
    /\ estaciones_bicis = Estaciones
    /\ entrada = <<>>
    /\ salida = <<>>

\* calcular_puntuacion(t, presupuesto) once more, on df_4 or on the ranking
Repuntuar ==
    /\ pc = "export"
    /\ \E t \in {"df_4", "df_final"} :
          /\ Puntuable(loc[t])
          /\ calls' = Append(calls, Llamada("calcular_puntuacion", loc[t]))
          /\ loc' = [loc EXCEPT ![t] = calcular_puntuacion(loc[t], presupuesto)]
          /\ rets' = Append(rets, calcular_puntuacion(loc[t], presupuesto))
    /\ pc' = "rerun"
    /\ UNCHANGED <<world, dfw, k, lista_cps, lista_comp, resultados_metricas,
                   columna_transporte, fallos, driver>>
    /\ UNCHANGED <<consultas, red, estaciones_bicis, entrada, salida>>

\* the rows of the scored table in another order, each with its index label
Permutar ==
    /\ pc = "sort"
    /\ \E p \in Permutaciones(NFilas(loc.df_4)) :
          loc' = [loc EXCEPT !.df_perm = Reordenar(loc.df_4, p)]
    /\ pc' = "perm"
    /\ UNCHANGED <<world, calls, rets, dfw, k, lista_cps, lista_comp,
                   resultados_metricas, columna_transporte, fallos, driver>>
    /\ UNCHANGED <<consultas, red, estaciones_bicis, entrada, salida>>

\* calcular_puntuacion(df_perm, presupuesto)
PuntuarPermutada ==
    /\ pc = "perm"
    /\ Puntuable(loc.df_perm)
    /\ calls' = Append(calls, Llamada("calcular_puntuacion", loc.df_perm))
    /\ loc' = [loc EXCEPT !.df_perm = calcular_puntuacion(loc.df_perm, presupuesto)]
    /\ rets' = Append(rets, calcular_puntuacion(loc.df_perm, presupuesto))
    /\ pc' = "perm_done"
    /\ UNCHANGED <<world, dfw, k, lista_cps, lista_comp, resultados_metricas,
                   columna_transporte, fallos, driver>>
    /\ UNCHANGED <<consultas, red, estaciones_bicis, entrada, salida>>

NextPuntuacion ==
    \/ MainPuntuar
    \/ MainOrdenar
    \/ Repuntuar
    \/ Permutar
    \/ PuntuarPermutada

SpecPuntuacion == InitPuntuacion /\ [][NextPuntuacion]_vars

(***************************************************************************)
(* Claims about the scoring engine and the ranking                         *)
(***************************************************************************)
\* the j-th call was a run of the scoring engine that returned
EsPuntuacion(j) == j <= Len(rets) /\ calls[j].fn = "calcular_puntuacion"

\* 100 * (price*0.40 + opportunity*0.30 + connectivity*0.30)
Formula403030(np, no, nc) == FAdd(FAdd(FMul(40, np), FMul(30, no)), FMul(30, nc))

\* 100 * (price*0.50 + connectivity*0.50 - 2)
Formula5050Menos2(np, nc) == FAdd(FAdd(FMul(50, np), FMul(50, nc)), <<-200, 1>>)

TieneNota(df) == "NOTA_FINAL" \in df.cols

\* C5: every final score calcular_puntuacion emits lies between 0 and 10.
C5_NotaEntre0y10 ==
    \A t \in {"df_4", "df_final", "df_perm"} :
       TieneNota(loc[t]) =>
          \A i \in 1..NFilas(loc[t]) :
             0 <= loc[t].rows[i].NOTA_FINAL /\ loc[t].rows[i].NOTA_FINAL <= 1000

MismaNotaPorCandidato(a, b) ==
    \A i \in 1..NFilas(a) : \A j \in 1..NFilas(b) :
       a.rows[i].NUMERO = b.rows[j].NUMERO => a.rows[i].NOTA_FINAL = b.rows[j].NOTA_FINAL

\* C6: the score of a candidate does not depend on the order of the rows: the
\* table scored with its rows in another order gives every candidate the score
\* it has in the table scored in the original order.
C6_InvariantePermutacion ==
    pc = "perm_done" => MismaNotaPorCandidato(loc.df_perm, loc.df_4)

\* C7: calcular_puntuacion run again on a table it has scored, df_4 or the
\* ranking made from it, gives every candidate the score it had.
C7_Idempotente ==
    pc = "rerun" => MismaNotaPorCandidato(loc.df_final, loc.df_4)

\* C28: the connectivity and opportunity values that enter a candidate's score are
\* those of the candidate's own transport and competition tuples, whatever the index
\* labels of the rows (after a sort, say): never the raw values of another candidate.
C28_ValoresPropios ==
    pc = "perm_done" =>
       \A j \in 1..NFilas(loc.df_perm) :
          /\ nota_conec(loc.df_perm, loc.df_perm.rows[j])[1]
                = 10 * ValTransporte(loc.df_perm.rows[j].NUM_TRANS_PUB)
          /\ nota_oport(loc.df_perm, loc.df_perm.rows[j])[1]
                = 10 * (ValOportunidad2(loc.df_perm.rows[j].NUM_COMPETENCIA)
                          - min_oport2(loc.df_perm))

PosicionDe(df, numero) == CHOOSE i \in 1..NFilas(df) : df.rows[i].NUMERO = numero

\* C8: the ranking holds every scored candidate exactly once, in descending order
\* of score, candidates with equal scores in the order they had in the input.
C8_RankingEstable ==
    pc = "export" =>
       /\ NFilas(loc.df_final) = NFilas(loc.df_4)
       /\ \A i \in 1..NFilas(loc.df_4) :
             Cardinality({j \in 1..NFilas(loc.df_final) :
                             loc.df_final.rows[j] = loc.df_4.rows[i]}) = 1
       /\ Descendente(loc.df_final)
       /\ \A i, j \in 1..NFilas(loc.df_final) :
             (i < j /\ loc.df_final.rows[i].NOTA_FINAL = loc.df_final.rows[j].NOTA_FINAL) =>
                PosicionDe(loc.df_4, loc.df_final.rows[i].NUMERO)
                   < PosicionDe(loc.df_4, loc.df_final.rows[j].NUMERO)

\* C30: the browser analizar_reputacion starts for a non-empty set is closed exactly
\* once on every way out of the loop (its normal end, an exception, an interruption
\* by the user), and the stage then still returns a metrics tuple for every
\* candidate, those the loop did not reach getting (0, 0, 0, 0.0).
C30_NavegadorCerradoUnaVez ==
    /\ pc = "p3_loop" => driver = "abierto"
    /\ pc = "p3_fin" => driver = "cerrado"
    /\ loc.df_3 # NoDF =>
          /\ driver = "cerrado"
          /\ NFilas(loc.df_3) = NFilas(loc.df_2)
          /\ \A i \in 1..NFilas(loc.df_3) :
                /\ Len(loc.df_3.rows[i].NUM_COMPETENCIA) = 4
                /\ (\E f \in 1..NFilas(loc.df_3) : <<"p3", f>> \in fallos /\ f < i) =>
                      loc.df_3.rows[i].NUM_COMPETENCIA = <<0, 0, 0, 0>>

C30_Testigo ==
    /\ loc.df_3 # NoDF
    /\ NFilas(loc.df_3) = 2
    /\ <<"p3", 1>> \in fallos
    /\ driver = "cerrado"
    /\ loc.df_3.rows[2].COMPETENCIA # <<>>
    /\ loc.df_3.rows[2].NUM_COMPETENCIA = <<0, 0, 0, 0>>

(***************************************************************************)
(* The two stages that need coordinates, each on its own on a table whose  *)
(* COORDENADAS cells hold any of the values a cell can hold (specification *)
(* SpecCoordenadas): busqueda_competencia on df_1, analizar_transporte on  *)
(* the table the two stages before it make of df_1.                        *)
(***************************************************************************)
PerfilesCoordenadas ==
    {Perfil(100, <<"Bar Bueno", "Bar Oculto">>, <<2, 1, 0>>), Perfil(200, <<>>, <<0, 0, 1>>)}

MundosCoordenadas == UNION {[1..n -> PerfilesCoordenadas] : n \in 1..MaxCand}

FormasCoordenadas ==
    {Tupla(40, 3), Lista(40, 3), Tupla(41, 2), Tupla(0, 0), Lista(0, 0),
     Texto("(40, 3)"), Texto("sin datos"), Nulo}

\* busqueda(w) with the cells cs in COORDENADAS
TablaCon(w, cs) ==
    [cols |-> ColsP1,
     rows |-> [i \in 1..Len(w) |-> [FilaP1(i, w[i]) EXCEPT !.COORDENADAS = cs[i]]]]

\* busqueda_competencia(df) and analizar_reputacion(df) when nothing fails
EtapaP2(df, w) ==
    AsignarP2(df,
              [i \in 1..NFilas(df) |-> FilaP2Cps(<<>>, df.rows[i], w[df.rows[i].NUMERO], "no")[1]],
              [i \in 1..NFilas(df) |-> FilaP2Comp(<<>>, df.rows[i], w[df.rows[i].NUMERO], "no")[1]])

EtapaP3(df) == AsignarP3(df, [i \in 1..NFilas(df) |-> Metricas(df.rows[i].COMPETENCIA)])

InitCoordenadas ==
    /\ pc \in {"p2", "p4"}
    /\ world \in MundosCoordenadas
    /\ \E cs \in [1..Len(world) -> FormasCoordenadas] :
          /\ loc = [df_1 |-> TablaCon(world, cs),
                    df_2 |-> IF pc = "p4" THEN EtapaP2(TablaCon(world, cs), world) ELSE NoDF,
                    df_3 |-> IF pc = "p4" THEN EtapaP3(EtapaP2(TablaCon(world, cs), world))
                             ELSE NoDF,
                    df_4 |-> NoDF, df_final |-> NoDF, df_perm |-> NoDF]
    /\ calls = <<>>
    /\ rets = <<>>
    /\ dfw = NoDF
    /\ k = 0
    /\ lista_cps = <<>>
    /\ lista_comp = <<>>
    /\ resultados_metricas = <<>>
    /\ columna_transporte = <<>>
    /\ fallos = {}
    /\ driver = "sin iniciar"
    /\ consultas = {}
    /\ red = RedDisponible
    /\ estaciones_bicis = <<>>
    /\ entrada = <<>>
    /\ salida = <<>>

NextCoordenadas ==
    \/ P2Begin
    \/ P2Row
    \/ P2End
    \/ P4Begin
    \/ P4Row
    \/ P4End

SpecCoordenadas == InitCoordenadas /\ [][NextCoordenadas]_vars

\* the unresolved sentinel (0, 0) as the centre of a request
Centinela == <<0, 0>>

\* C11: neither busqueda_competencia nor analizar_transporte sends a reverse-geocode
\* or point-of-interest request centred at the unresolved sentinel (0, 0), whatever
\* the form in which the sentinel is in the candidate's COORDENADAS.
C11_SinConsultasEnCentinela ==
    \A q \in consultas : q.servicio \in {"reverse", "overpass"} => q.en # Centinela

\* the candidates of the table in hand whose coordinates are a pair other than the
\* sentinel
ConCoordenadas ==
    {i \in 1..NFilas(dfw) :
        /\ dfw.rows[i].COORDENADAS.tipo \in {"tuple", "list"}
        /\ Len(dfw.rows[i].COORDENADAS.v) = 2
        /\ dfw.rows[i].COORDENADAS.v # Centinela}

PedidosDeRed == {q \in consultas : q.etapa = "p4" /\ q.servicio \in {"catalogo", "estaciones"}}

\* C25: in one call of analizar_transporte the bike network is selected at most
\* once, before the first per-candidate count, with the first candidate that has
\* valid coordinates as reference; the station list is the same for every candidate
\* and the per-candidate processing does not change it; when no candidate has valid
\* coordinates no catalog request is made and the station list is empty.
C25_RedUnaVezAntesDelBucle ==
    pc = "p4_loop" =>
       /\ k = 1 => {q \in consultas : q.etapa = "p4" /\ q.servicio = "overpass"} = {}
       /\ ConCoordenadas = {} => PedidosDeRed = {} /\ estaciones_bicis = <<>>
       /\ ConCoordenadas # {} =>
             /\ \A q \in PedidosDeRed : q.en = dfw.rows[Min(ConCoordenadas)].COORDENADAS.v
             /\ Cardinality({q \in PedidosDeRed : q.servicio = "catalogo"}) \in 1..MAX_RETRIES
             /\ Cardinality({q \in PedidosDeRed : q.servicio = "estaciones"}) <= MAX_RETRIES
             /\ estaciones_bicis = detectar_y_obtener_estaciones(red)

C25_Testigo ==
    /\ pc = "p4_loop"
    /\ NFilas(dfw) = 2
    /\ k = 3
    /\ dfw.rows[1].COORDENADAS = Tupla(0, 0)
    /\ dfw.rows[2].COORDENADAS = Tupla(41, 2)
    /\ estaciones_bicis # <<>>
    /\ \E q \in PedidosDeRed : q.servicio = "catalogo" /\ q.en = <<41, 2>>

(***************************************************************************)
(* Functions studied on their own.  entrada holds the arguments and what   *)
(* the external service answers to each request of the call, salida what   *)
(* the function returned; main is not running.                             *)
(***************************************************************************)
varsPipeline == <<world, loc, calls, rets, dfw, k, lista_cps, lista_comp, resultados_metricas,
                  columna_transporte, fallos, driver, consultas, red, estaciones_bicis>>

SinPipeline ==
    /\ world = <<>>
    /\ loc = [df_1 |-> NoDF, df_2 |-> NoDF, df_3 |-> NoDF, df_4 |-> NoDF,
              df_final |-> NoDF, df_perm |-> NoDF]
    /\ calls = <<>>
    /\ rets = <<>>
    /\ dfw = NoDF
    /\ k = 0
    /\ lista_cps = <<>>
    /\ lista_comp = <<>>
    /\ resultados_metricas = <<>>
    /\ columna_transporte = <<>>
    /\ fallos = {}
    /\ driver = "sin iniciar"
    /\ consultas = {}
    /\ red = RedDisponible
    /\ estaciones_bicis = <<>>

(***************************************************************************)
(* p1_busqueda_local.geocodificar_inteligente (lines 98-133), specification *)
(* SpecGeocodificar.  An address is the sequence of its characters.        *)
(***************************************************************************)
MaxDir == 5

Digitos == {"5"}

Caracteres == {"a", " "} \cup Digitos

Direcciones == UNION {[1..n -> Caracteres] : n \in 0..MaxDir}

\* re.sub(r'[0-9]', '', direccion)
EsLetra(c) == c \notin Digitos

SinDigitos(d) == SelectSeq(d, EsLetra)

\* str.strip(" ,")
RECURSIVE LStrip(_)
LStrip(d) == IF d # <<>> /\ Head(d) \in {" ", ","} THEN LStrip(Tail(d)) ELSE d

RECURSIVE RStrip(_)
RStrip(d) ==
    IF d # <<>> /\ d[Len(d)] \in {" ", ","} THEN RStrip(SubSeq(d, 1, Len(d) - 1)) ELSE d

solo_letras(direccion) == RStrip(LStrip(SinDigitos(direccion)))

\* the geocoding requests of one call, in the order of the code: provider and query
Intento(proveedor, consulta) == <<proveedor, consulta>>

\* mutant: Nominatim is asked before ArcGIS
EstrategiasAB_OsmPrimero ==
    <<Intento("osm", "direccion, ciudad"), Intento("osm", "direccion"),
      Intento("arcgis", "direccion, ciudad"), Intento("arcgis", "direccion")>>

\* lines 106-122: busquedas against ArcGIS, then against Nominatim
EstrategiasAB ==
    <<Intento("arcgis", "direccion, ciudad"), Intento("arcgis", "direccion"),
      Intento("osm", "direccion, ciudad"), Intento("osm", "direccion")>>

\* lines 124-131: the query without digits, sent only if more than 3 characters remain
EstrategiaC(direccion) ==
    IF Len(solo_letras(direccion)) > 3 THEN <<Intento("arcgis", "solo_letras, ciudad")>> ELSE <<>>

Plan(direccion) == EstrategiasAB \o EstrategiaC(direccion)

\* what a request gives: a location, nothing (None), or an exception (swallowed)
RespuestasGeo == {"loc", "nada", "excepcion"}

MaxIntentosGeo == 5

\* the first request of the plan that is answered with a location, 0 if none is
Acierto(direccion, resp) ==
    IF \E i \in 1..Len(Plan(direccion)) : resp[i] = "loc"
    THEN Min({i \in 1..Len(Plan(direccion)) : resp[i] = "loc"})
    ELSE 0

\* loc.latitude, loc.longitude of the location the i-th request of the call yields
LocDe(i) == Tupla(40, i)

\* the coordinates returned and the requests that were sent
geocodificar_inteligente(direccion, resp) ==
    IF Acierto(direccion, resp) # 0
    THEN [coords |-> LocDe(Acierto(direccion, resp)),
          intentos |-> SubSeq(Plan(direccion), 1, Acierto(direccion, resp))]
    ELSE [coords |-> Tupla(0, 0), intentos |-> Plan(direccion)]

InitGeocodificar ==
    /\ pc = "geocodificar"
    /\ entrada \in [direccion : Direcciones, resp : [1..MaxIntentosGeo -> RespuestasGeo]]
    /\ salida = <<>>
    /\ SinPipeline

Geocodificar ==
    /\ pc = "geocodificar"
    /\ salida' = geocodificar_inteligente(entrada.direccion, entrada.resp)
    /\ pc' = "geocodificado"
    /\ UNCHANGED entrada
    /\ UNCHANGED varsPipeline

NextGeocodificar == Geocodificar

SpecGeocodificar == InitGeocodificar /\ [][NextGeocodificar]_vars

\* C12: geocodificar_inteligente never returns the unresolved sentinel (0.0, 0.0)
\* without having sent the digit-stripped last-resort query to the primary provider.
C12_UltimoRecursoIntentado ==
    (pc = "geocodificado" /\ salida.coords = Tupla(0, 0)) =>
        \E i \in 1..Len(salida.intentos) :
           salida.intentos[i] = Intento("arcgis", "solo_letras, ciudad")

\* the five queries in the order the specification gives them
OrdenDeConsultas ==
    <<Intento("arcgis", "direccion, ciudad"), Intento("arcgis", "direccion"),
      Intento("osm", "direccion, ciudad"), Intento("osm", "direccion"),
      Intento("arcgis", "solo_letras, ciudad")>>

\* C21: geocodificar_inteligente sends its queries in the fixed order (primary with
\* city, primary without, secondary with city, secondary without, last resort), at
\* most 5 of them; it returns the coordinates of the first query that yields a
\* location and sends nothing after it; an exception or an empty result only makes
\* it go on to the next query.
C21_OrdenDeGeocodificacion ==
    pc = "geocodificado" =>
       LET n == Len(salida.intentos)
       IN  /\ n <= 5
           /\ \A i \in 1..n : salida.intentos[i] = OrdenDeConsultas[i]
           /\ \A i \in 1..n : i < n => entrada.resp[i] # "loc"
           /\ salida.coords # Tupla(0, 0) =>
                 /\ n >= 1
                 /\ entrada.resp[n] = "loc"
                 /\ salida.coords = Tupla(40, n)
           /\ salida.coords = Tupla(0, 0) =>
                 /\ n >= 4
                 /\ \A i \in 1..n : entrada.resp[i] # "loc"

\* an exception, an empty result and an exception again, then the secondary
\* provider without city yields the location, and the last resort is not sent
C21_Testigo ==
    /\ pc = "geocodificado"
    /\ entrada.resp = <<"excepcion", "nada", "excepcion", "loc", "loc">>
    /\ Len(salida.intentos) = 4
    /\ salida.coords = Tupla(40, 4)

(***************************************************************************)
(* p2_competencia.obtener_competencia (lines 236-283), specification       *)
(* SpecCompetencia.  The response of the point-of-interest service is its  *)
(* status and its elements; an element has a name (<<>> when the tag is    *)
(* missing or empty), a category tag and a postal code ("" when missing).  *)
(***************************************************************************)
MaxElem == 17

TopeElementos == 15

\* the i-th element of a response with m different names; in a response "sin
\* nombre" the odd elements have no name, in a response "sin cp" no postal code
Elemento(i, m, forma) ==
    [name |-> IF forma = "sin nombre" /\ i % 2 = 1 THEN <<>> ELSE <<"Bar", (i - 1) % m>>,
     cat  |-> IF i % 4 = 1 THEN "" ELSE "restaurant",
     cp   |-> IF forma = "sin cp" /\ i % 2 = 1 THEN "" ELSE "28002"]

FormasRespuesta == {"completa", "sin nombre", "sin cp"}

EstadosRespuesta == {"200", "429", "500", "excepcion"}

RespuestasOverpass ==
    {[estado |-> e, elementos |-> [i \in 1..n |-> Elemento(i, m, f)]] :
        e \in EstadosRespuesta, n \in 0..MaxElem, m \in 1..MaxElem, f \in FormasRespuesta}

\* elementos[:15]
Primeros_SinTope(elementos) == elementos

Primeros(elementos) ==
    SubSeq(elementos, 1, IF Len(elementos) < TopeElementos THEN Len(elementos) ELSE TopeElementos)

\* lines 265-269: the name, or the category in brackets, "(Local)" without one
NombreDe(elem) ==
    IF elem.name # <<>> THEN elem.name
    ELSE <<"(", IF elem.cat # "" THEN elem.cat ELSE "Local", ")">>

\* line 271
CpDe(elem, cp_local_principal) == IF elem.cp # "" THEN elem.cp ELSE cp_local_principal

\* lista after the loop of lines 262-272
ListaCompetidores(elementos, cp_local_principal) ==
    [i \in 1..Len(Primeros(elementos)) |->
        <<NombreDe(Primeros(elementos)[i]), CpDe(Primeros(elementos)[i], cp_local_principal)>>]

\* set(lista), listed by first occurrence
RECURSIVE Unicos(_)
Unicos(lista) ==
    IF lista = <<>> THEN <<>>
    ELSE LET resto == Unicos(SubSeq(lista, 1, Len(lista) - 1))
             ult   == lista[Len(lista)]
         IN  IF ult \in Rango(resto) THEN resto ELSE Append(resto, ult)

Invertida(lista) == [i \in 1..Len(lista) |-> lista[Len(lista) + 1 - i]]

\* a second requests.get after the pause of line 277
LlamadasOverpass_Reintenta(resp) ==
    IF resp.estado = "429" THEN <<"requests.get", "time.sleep", "requests.get">>
    ELSE <<"requests.get">>

\* the calls obtener_competencia makes to the network and to the clock, in order:
\* the request of line 255 and, on status 429, the pause of line 277
LlamadasOverpass(resp) ==
    IF resp.estado = "429" THEN <<"requests.get", "time.sleep">> ELSE <<"requests.get">>

\* list(set(lista)): the order of the result is not fixed by the code; the model
\* lets it be the order of first occurrence or its reverse
obtener_competencia(resp, cp_local_principal, orden) ==
    IF resp.estado = "200"
    THEN IF orden = "directo" THEN Unicos(ListaCompetidores(resp.elementos, cp_local_principal))
         ELSE Invertida(Unicos(ListaCompetidores(resp.elementos, cp_local_principal)))
    ELSE <<>>

InitCompetencia ==
    /\ pc = "obtener_competencia"
    /\ entrada \in [resp : RespuestasOverpass, cp_local_principal : {"28001"}]
    /\ salida = <<>>
    /\ SinPipeline

ObtenerCompetencia ==
    /\ pc = "obtener_competencia"
    /\ \E orden \in {"directo", "inverso"} :
          salida' = obtener_competencia(entrada.resp, entrada.cp_local_principal, orden)
    /\ calls' = LlamadasOverpass(entrada.resp)
    /\ pc' = "competencia obtenida"
    /\ UNCHANGED entrada
    /\ UNCHANGED <<world, loc, rets, dfw, k, lista_cps, lista_comp, resultados_metricas,
                   columna_transporte, fallos, driver, consultas, red, estaciones_bicis>>

NextCompetencia == ObtenerCompetencia

SpecCompetencia == InitCompetencia /\ [][NextCompetencia]_vars

\* C14: the list obtener_competencia returns has at most 15 entries and no two of
\* them have the same (name, postal code) pair.
C14_TopeYSinDuplicados ==
    pc = "competencia obtenida" =>
       /\ Len(salida) <= 15
       /\ \A i, j \in 1..Len(salida) : i # j => salida[i] # salida[j]

\* a response with more than 15 elements, two elements with the same name and
\* postal code among the first 15, and a result that names 14 competitors
C14_Testigo ==
    /\ pc = "competencia obtenida"
    /\ Len(entrada.resp.elementos) > 15
    /\ \E i, j \in 1..15 :
          /\ i # j
          /\ entrada.resp.elementos[i].name # <<>>
          /\ entrada.resp.elementos[i].name = entrada.resp.elementos[j].name
          /\ entrada.resp.elementos[i].cp = entrada.resp.elementos[j].cp
    /\ Len(salida) = 14

MaxRivales == 3

\* the entries a competitor list can hold: (name, postal code) pairs, and an entry
\* that is too short to be one
EntradasRival ==
    {<<n, "28001">> : n \in {"Bar Bueno", "Bar Justo", "Bar Malo", "Bar Oculto", "X", "(Local)"}}
       \cup {<<"Bar Suelto">>}

ListasRivales == UNION {[1..n -> EntradasRival] : n \in 0..MaxRivales}

InitReputacion ==
    /\ pc = "metricas"
    /\ entrada \in ListasRivales
    /\ salida = <<>>
    /\ SinPipeline

CalcularMetricas ==
    /\ pc = "metricas"
    /\ salida' = Metricas(entrada)
    /\ pc' = "metricas calculadas"
    /\ UNCHANGED entrada
    /\ UNCHANGED varsPipeline

NextReputacion == CalcularMetricas

SpecReputacion == InitReputacion /\ [][NextReputacion]_vars

\* the entries that are kept: complete, with a name that is neither missing, too
\* short nor generic
Conservadas(lista) ==
    {j \in 1..Len(lista) : Len(lista[j]) >= 2 /\ ~NombreDescartado(lista[j][1])}

\* C15: a candidate's total is the number of competitor entries that remain after
\* the entries with a missing or too-short name are discarded.
C15_TotalTrasDescartar ==
    pc = "metricas calculadas" => salida[1] = Cardinality(Conservadas(entrada))

\* the competitors with a resolved rating
Resueltas(lista) == {j \in Conservadas(lista) : Opiniones(lista[j][1]) # SinNota}

RECURSIVE SumaNotas(_, _)
SumaNotas(lista, J) ==
    IF J = {} THEN 0
    ELSE LET j == CHOOSE x \in J : TRUE
         IN  Opiniones(lista[j][1]) + SumaNotas(lista, J \ {j})

Abs(x) == IF x < 0 THEN -x ELSE x

\* C16: good is the number of competitors with a resolved rating > 3.8, bad the
\* number with a resolved rating <= 3.8, so good + bad is the number of resolved
\* ratings; mean is the average of the resolved ratings (to 2 decimals), 0.0 when
\* none is resolved; unresolved competitors count in none of them.
C16_BuenosMalosMedia ==
    pc = "metricas calculadas" =>
       LET R == Resueltas(entrada)
       IN  /\ salida[2] = Cardinality({j \in R : Opiniones(entrada[j][1]) > 38})
           /\ salida[3] = Cardinality({j \in R : Opiniones(entrada[j][1]) <= 38})
           /\ salida[2] + salida[3] = Cardinality(R)
           /\ R = {} => salida[4] = 0
           /\ R # {} =>
                 2 * Abs(Cardinality(R) * salida[4] - 10 * SumaNotas(entrada, R))
                    <= Cardinality(R)

\* a list with a rating of exactly 3.8, a good one and an unresolved one
C16_Testigo ==
    /\ pc = "metricas calculadas"
    /\ \E a, b, c \in 1..Len(entrada) :
          /\ entrada[a][1] = "Bar Justo"
          /\ entrada[b][1] = "Bar Bueno"
          /\ entrada[c][1] = "Bar Oculto"
    /\ salida = <<3, 1, 1, 415>>

(***************************************************************************)
(* p4_transporte.analizar_transporte on its own, with a bike-share service *)
(* that answers each request in any way (specification SpecTransporte).    *)
(***************************************************************************)
PerfilesTransporte == {Perfil(100, <<>>, <<2, 1, 3>>), Perfil(200, <<>>, <<0, 0, 1>>)}

MundosTransporte == UNION {[1..n -> PerfilesTransporte] : n \in 1..MaxCand}

\* the answers to the requests for the stations: all good, good at the last
\* attempt, none good
RespuestasDeEstaciones ==
    {<<"ok", "ok", "ok">>, <<"excepcion", "no200", "ok">>,
     <<"excepcion", "excepcion", "excepcion">>, <<"no200", "no200", "no200">>}

Redes == [catalogo : [1..MAX_RETRIES -> RespuestasCatalogo], estaciones : RespuestasDeEstaciones]

InitTransporte ==
    /\ pc = "p4"
    /\ world \in MundosTransporte
    /\ red \in Redes
    /\ loc = [df_1 |-> busqueda(world), df_2 |-> Tabla2(world), df_3 |-> Tabla3(world),
              df_4 |-> NoDF, df_final |-> NoDF, df_perm |-> NoDF]
    /\ calls = <<>>
    /\ rets = <<>>
    /\ dfw = NoDF
    /\ k = 0
    /\ lista_cps = <<>>
    /\ lista_comp = <<>>
    /\ resultados_metricas = <<>>
    /\ columna_transporte = <<>>
    /\ fallos = {}
    /\ driver = "sin iniciar"
    /\ consultas = {}
    /\ estaciones_bicis = <<>>
    /\ entrada = <<>>
    /\ salida = <<>>

NextTransporte ==
    \/ P4Begin
    \/ P4Row
    \/ P4End

SpecTransporte == InitTransporte /\ [][NextTransporte]_vars

\* a response to a catalogue request that was received and processed
Exitosa(r) == r \in {"red", "sin_red"}

\* every catalogue attempt fails, or the catalogue holds no network for the city
SinRed ==
    \/ \A i \in 1..3 : ~Exitosa(red.catalogo[i])
    \/ \E i \in 1..3 : red.catalogo[i] = "sin_red" /\ \A j \in 1..(i - 1) : ~Exitosa(red.catalogo[j])

PedidosCatalogo == {q \in consultas : q.servicio = "catalogo"}

\* C17: in one call the bike-share catalogue is fetched at most 3 times and never
\* again after a successful response; if every attempt fails or no network is found
\* the station list is empty and every candidate's bike count is 0, and
\* analizar_transporte returns a transport tuple for every candidate in any case.
C17_ReintentosBicis ==
    /\ Cardinality(PedidosCatalogo) <= 3
    /\ \A q \in PedidosCatalogo : \A i \in 1..(q.fila - 1) : ~Exitosa(red.catalogo[i])
    /\ (SinRed /\ pc \in {"p4_loop", "score"}) => estaciones_bicis = <<>>
    /\ pc # "crash"
    /\ pc = "score" =>
          /\ "NUM_TRANS_PUB" \in loc.df_4.cols
          /\ NFilas(loc.df_4) = NFilas(loc.df_3)
          /\ \A i \in 1..NFilas(loc.df_4) :
                /\ Len(loc.df_4.rows[i].NUM_TRANS_PUB) = 3
                /\ SinRed => loc.df_4.rows[i].NUM_TRANS_PUB[3] = 0

\* the three attempts fail, analizar_transporte has returned, and a candidate with
\* bike stations near it has its bus and rail counts and no bikes
C17_Testigo ==
    /\ pc = "score"
    /\ \A i \in 1..3 : ~Exitosa(red.catalogo[i])
    /\ Cardinality(PedidosCatalogo) = 3
    /\ \E i \in 1..NFilas(loc.df_4) :
          /\ world[i].trans[3] > 0
          /\ loc.df_4.rows[i].NUM_TRANS_PUB = <<2, 1, 0>>

(***************************************************************************)
(* The three sub-scores of the scoring engine (specification               *)
(* SpecPuntuacion).  A sub-score is the fraction <<num, den>>; it equals   *)
(* a / b when den and b are not 0 and num * b = a * den.                   *)
(***************************************************************************)
EsFraccion(f, a, b) == f[2] # 0 /\ b # 0 /\ f[1] * b = a * f[2]

PreciosDe(df) == {df.rows[i].PRECIO : i \in 1..NFilas(df)}

\* C18: the price score of a candidate is 10 * (max price - its price) / (max price -
\* min price) over the prices of the set, 10 for the cheapest and 0 for the most
\* expensive; when all prices are equal every candidate scores 10.
C18_NotaPrecio ==
    \A j \in 1..Len(calls) :
       EsPuntuacion(j) =>
          \A i \in 1..NFilas(rets[j]) :
             LET df  == rets[j]
                 row == df.rows[i]
                 mx  == Max(PreciosDe(df))
                 mn  == Min(PreciosDe(df))
                 np  == nota_precio(df, row, presupuesto)
             IN  /\ mx # mn => EsFraccion(np, 10 * (mx - row.PRECIO), mx - mn)
                 /\ row.PRECIO = mn => EsFraccion(np, 10, 1)
                 /\ (mx # mn /\ row.PRECIO = mx) => EsFraccion(np, 0, 1)
                 /\ mx = mn => EsFraccion(np, 10, 1)

\* a scored set whose dearest candidate is cheaper than the budget
C18_Testigo ==
    \E j \in 1..Len(calls) :
       /\ EsPuntuacion(j)
       /\ PreciosDe(rets[j]) = {100, 150}
       /\ presupuesto > 150

\* the row labels are the positions 0, 1, 2, ... as in every table main builds
EtiquetasEnOrden(df) == \A i \in 1..NFilas(df) : df.rows[i].idx = i - 1

\* bus*1 + rail*3 + bike*1
ConectividadBruta(row) ==
    row.NUM_TRANS_PUB[1] + 3 * row.NUM_TRANS_PUB[2] + row.NUM_TRANS_PUB[3]

\* C19: a candidate's connectivity score is 10 * raw / M with raw = bus*1 + rail*3 +
\* bike*1 and M the largest raw value of the set, 1 when that is 0: the candidate
\* with the largest raw value > 0 scores 10, and all score 0 when every raw is 0.
C19_NotaConectividad ==
    \A j \in 1..Len(calls) :
       (EsPuntuacion(j) /\ EtiquetasEnOrden(rets[j])) =>
          \A i \in 1..NFilas(rets[j]) :
             LET df  == rets[j]
                 row == df.rows[i]
                 mx  == Max({ConectividadBruta(df.rows[x]) : x \in 1..NFilas(df)})
                 nc  == nota_conec(df, row)
             IN  /\ EsFraccion(nc, 10 * ConectividadBruta(row), IF mx = 0 THEN 1 ELSE mx)
                 /\ (ConectividadBruta(row) = mx /\ mx > 0) => EsFraccion(nc, 10, 1)
                 /\ mx = 0 => EsFraccion(nc, 0, 1)

\* a scored set in which (2 bus, 1 rail, 0 bike), raw 5, is the maximum, and a
\* scored set without any transport
C19_Testigo ==
    /\ \E j \in 1..Len(calls) :
          /\ EsPuntuacion(j)
          /\ EtiquetasEnOrden(rets[j])
          /\ \E a, b \in 1..NFilas(rets[j]) :
                /\ rets[j].rows[a].NUM_TRANS_PUB = <<2, 1, 0>>
                /\ rets[j].rows[b].NUM_TRANS_PUB = <<0, 0, 0>>
                /\ EsFraccion(nota_conec(rets[j], rets[j].rows[a]), 10, 1)

\* twice bad*2 + total*0.5 - good*3
OportunidadBruta2(row) ==
    4 * row.NUM_COMPETENCIA[3] + row.NUM_COMPETENCIA[1] - 6 * row.NUM_COMPETENCIA[2]

\* C20: a candidate's opportunity score is 10 * (raw - min) / (max - min) with raw =
\* bad*2 + total*0.5 - good*3 and min, max over the set, the range being 1 when max
\* equals min: it lies in [0, 10], is 10 for the largest raw value and 0 for the
\* smallest when they differ, and is computed without a division by zero.
C20_NotaOportunidad ==
    \A j \in 1..Len(calls) :
       (EsPuntuacion(j) /\ EtiquetasEnOrden(rets[j])) =>
          \A i \in 1..NFilas(rets[j]) :
             LET df  == rets[j]
                 row == df.rows[i]
                 B   == {OportunidadBruta2(df.rows[x]) : x \in 1..NFilas(df)}
                 mx  == Max(B)
                 mn  == Min(B)
                 no  == nota_oport(df, row)
             IN  /\ EsFraccion(no, 10 * (OportunidadBruta2(row) - mn),
                               IF mx = mn THEN 2 ELSE mx - mn)
                 /\ no[2] > 0 /\ 0 <= no[1] /\ no[1] <= 10 * no[2]
                 /\ (mx # mn /\ OportunidadBruta2(row) = mx) => EsFraccion(no, 10, 1)
                 /\ (mx # mn /\ OportunidadBruta2(row) = mn) => EsFraccion(no, 0, 1)
                 /\ mx = mn => EsFraccion(no, 0, 1)

\* a scored set with a negative raw opportunity beside a larger one, and one
\* whose raw values are all equal
C20_Testigo ==
    \E j \in 1..Len(calls) :
       /\ EsPuntuacion(j)
       /\ EtiquetasEnOrden(rets[j])
       /\ \E a, b \in 1..NFilas(rets[j]) :
             /\ OportunidadBruta2(rets[j].rows[a]) < 0
             /\ OportunidadBruta2(rets[j].rows[b]) > OportunidadBruta2(rets[j].rows[a])
             /\ EsFraccion(nota_oport(rets[j], rets[j].rows[a]), 0, 1)
             /\ EsFraccion(nota_oport(rets[j], rets[j].rows[b]), 10, 1)

(***************************************************************************)
(* p3_reputacion.buscar_nota_duckduckgo (lines 84-150), specification      *)
(* SpecNota.  The page is what re.search finds in its text for each of the *)
(* eight patterns, in the order of the code (six on a scale of 5, two on a *)
(* scale of 10): nothing (<<>>), or the number captured, in tenths.        *)
(* Ratings are in hundredths here, a value on a scale of 10 being halved.  *)
(***************************************************************************)
NumPatrones5 == 6

NumPatrones10 == 2

\* what a pattern captures: nothing, "4,5", "7.5", "9.2"
Capturas == {<<>>, <<45>>, <<75>>, <<92>>}

\* pages on which at most three patterns match
Paginas ==
    {p \in [1..(NumPatrones5 + NumPatrones10) -> Capturas] :
        Cardinality({i \in 1..(NumPatrones5 + NumPatrones10) : p[i] # <<>>}) <= 3}

\* float(texto_nota), and float(texto_nota) / 2 for the patterns of patrones_base10
Convertida(i, captura) == IF i <= NumPatrones5 THEN captura[1] * 10 ELSE captura[1] * 5

\* 0.0 <= nota <= 5.0
EnRango(nota) == 0 <= nota /\ nota <= 500

\* the two loops of lines 127-145 from pattern i on: the first pattern that matches
\* with a value in range decides; a match out of range lets the loop go on
RECURSIVE Escanear(_, _)
Escanear(pagina, i) ==
    IF i > NumPatrones5 + NumPatrones10 THEN SinNota
    ELSE IF pagina[i] # <<>> /\ EnRango(Convertida(i, pagina[i]))
         THEN Convertida(i, pagina[i])
         ELSE Escanear(pagina, i + 1)

\* fallo: the page cannot be loaded or read (lines 109-113 raise): None
buscar_nota_duckduckgo(pagina, fallo) ==
    IF fallo THEN SinNota ELSE Escanear(pagina, 1)

InitNota ==
    /\ pc = "buscar_nota"
    /\ entrada \in [pagina : Paginas, fallo : BOOLEAN]
    /\ salida = <<>>
    /\ SinPipeline

BuscarNota ==
    /\ pc = "buscar_nota"
    /\ salida' = buscar_nota_duckduckgo(entrada.pagina, entrada.fallo)
    /\ pc' = "nota buscada"
    /\ UNCHANGED entrada
    /\ UNCHANGED varsPipeline

NextNota == BuscarNota

SpecNota == InitNota /\ [][NextNota]_vars

\* the patterns that match the page
Coinciden(pagina) == {i \in 1..8 : pagina[i] # <<>>}

\* C22: the rating is decided by the first pattern that matches, the patterns on a
\* scale of 5 first and those on a scale of 10 (halved) after them: when the value
\* of that first match is outside [0, 5] the result is unresolved and no later
\* pattern is consulted, whatever the later patterns match; every rating returned
\* lies in [0.0, 5.0].
C22_PrimerPatronDecide ==
    (pc = "nota buscada" /\ ~entrada.fallo) =>
       /\ salida = SinNota \/ (0 <= salida /\ salida <= 500)
       /\ Coinciden(entrada.pagina) = {} => salida = SinNota
       /\ Coinciden(entrada.pagina) # {} =>
             LET i == Min(Coinciden(entrada.pagina))
                 v == IF i <= 6 THEN 10 * entrada.pagina[i][1] ELSE 5 * entrada.pagina[i][1]
             IN  IF 0 <= v /\ v <= 500
                 THEN salida = v
                 ELSE salida = SinNota

(***************************************************************************)
(* p4_transporte.calcular_distancia (lines 51-65).  A coordinate is a      *)
(* number, None or a text that float() rejects.  Numbers are thousandths   *)
(* of a degree and the points of the model lie on one meridian, where the  *)
(* haversine formula gives r * dlat: 6371 km * pi / 180 = 111.195 m for    *)
(* each thousandth of a degree of latitude.                                *)
(***************************************************************************)
Num(n) == [tipo |-> "num", n |-> n]

None == [tipo |-> "none", n |-> 0]

NoNumerico == [tipo |-> "str", n |-> 0]

DISTANCIA_NULA == 999999

MilimetrosPorMiligrado == 111195

\* lines 56-63 for two points of the same meridian, in metres
Haversine(lat1, lat2) == (MilimetrosPorMiligrado * Abs(lat1 - lat2)) \div 1000

\* the formula applied to whatever the four values hold
calcular_distancia_SinGuardas(lat1, lon1, lat2, lon2) == Haversine(lat1.n, lat2.n)

calcular_distancia(lat1, lon1, lat2, lon2) ==
    IF \E c \in {lat1, lon1, lat2, lon2} : c.tipo = "none" THEN DISTANCIA_NULA
    ELSE IF \E c \in {lat1, lon1, lat2, lon2} : c.tipo = "str" THEN DISTANCIA_NULA
    ELSE Haversine(lat1.n, lat2.n)

(***************************************************************************)
(* p4_transporte.detectar_y_obtener_estaciones, the selection of the       *)
(* network in a catalog that was received (lines 141-174), specification   *)
(* SpecRedes.  A text is the sequence of its characters.                   *)
(***************************************************************************)
MaxRedes == 3

Minuscula(ch) ==
    CASE ch = "V" -> "v" [] ch = "I" -> "i" [] ch = "G" -> "g" [] ch = "O" -> "o"
      [] ch = "L" -> "l" [] ch = "B" -> "b" [] OTHER -> ch

\* str.lower()
lower(txt) == [i \in 1..Len(txt) |-> Minuscula(txt[i])]

\* str.strip()
RECURSIVE strip(_)
strip(txt) ==
    IF txt # <<>> /\ Head(txt) = " " THEN strip(Tail(txt))
    ELSE IF txt # <<>> /\ txt[Len(txt)] = " " THEN strip(SubSeq(txt, 1, Len(txt) - 1))
    ELSE txt

\* sub in txt
Contiene(sub, txt) ==
    \E i \in 0..(Len(txt) - Len(sub)) : SubSeq(txt, i + 1, i + Len(sub)) = sub

Red(country, city, name, latitude) ==
    [country |-> country, city |-> city, name |-> name,
     latitude |-> latitude, longitude |-> Num(3000)]

\* the entries of the catalog: networks of Vigo (one of them without coordinates and
\* named after the city only, one in the Canary Islands), of Leon, and of a foreign Vigo
RedesPosibles ==
    { Red("ES", <<"V","i","g","o">>, <<"B","i","c","i">>, Num(42200)),
      Red("ES", <<"L","u","g","o">>, <<"V","i","g","o","B","i","c","i">>, None),
      Red("ES", <<"V","i","g","o">>, <<"B","i","c","i">>, Num(28000)),
      Red("ES", <<"L","e","o","n">>, <<"B","i","c","i">>, Num(40001)),
      Red("ES", <<"L","e","o","n">>, <<"B","i","c","i">>, None),
      Red("FR", <<"V","i","g","o">>, <<"B","i","c","i">>, Num(40000)) }

Catalogos == UNION {[1..n -> RedesPosibles] : n \in 0..MaxRedes}

\* what the user types as city
Ciudades ==
    { <<>>, <<"v","i">>, <<"V","I","G","O">>, <<" ","v","i","g","o"," ">>, <<"o","s","l","o">> }

\* line 135
ciudad_normalizada(ciudad_busqueda) == strip(lower(ciudad_busqueda))

\* line 144
redes_es(networks) == SelectSeq(networks, LAMBDA n : n.country = "ES")

\* lines 152-155
CoincideNombre(ciudad, net) ==
    Contiene(ciudad_normalizada(ciudad), lower(net.city))
       \/ Contiene(ciudad_normalizada(ciudad), lower(net.name))

\* lines 147-156
candidatos_nombre(ciudad, networks) ==
    IF Len(ciudad_normalizada(ciudad)) > 2
    THEN SelectSeq(redes_es(networks), LAMBDA net : CoincideNombre(ciudad, net))
    ELSE <<>>

\* line 159
pool_busqueda(ciudad, networks) ==
    IF candidatos_nombre(ciudad, networks) # <<>> THEN candidatos_nombre(ciudad, networks)
    ELSE redes_es(networks)

\* lines 167-173 on the first n networks of the pool: mejor_red is <<>> for None,
\* distancia_minima is <<>> for float('inf')
RECURSIVE MasCercana(_, _, _, _)
MasCercana(pool, n, lat_ref, lon_ref) ==
    IF n = 0 THEN [mejor_red |-> <<>>, distancia_minima |-> <<>>]
    ELSE LET antes == MasCercana(pool, n - 1, lat_ref, lon_ref)
             d     == calcular_distancia(lat_ref, lon_ref, pool[n].latitude, pool[n].longitude)
         IN  IF antes.distancia_minima = <<>> \/ d < antes.distancia_minima[1]
             THEN [mejor_red |-> <<pool[n]>>, distancia_minima |-> <<d>>]
             ELSE antes

SeleccionarRed(lat_ref, lon_ref, ciudad_busqueda, networks) ==
    MasCercana(pool_busqueda(ciudad_busqueda, networks),
               Len(pool_busqueda(ciudad_busqueda, networks)), lat_ref, lon_ref).mejor_red

InitRedes ==
    /\ pc = "seleccionar_red"
    /\ entrada \in [lat_ref : {Num(40000)}, lon_ref : {Num(3000)},
                    ciudad : Ciudades, networks : Catalogos]
    /\ salida = <<>>
    /\ SinPipeline

SeleccionRed ==
    /\ pc = "seleccionar_red"
    /\ salida' = SeleccionarRed(entrada.lat_ref, entrada.lon_ref, entrada.ciudad, entrada.networks)
    /\ pc' = "red seleccionada"
    /\ UNCHANGED entrada
    /\ UNCHANGED varsPipeline

NextRedes == SeleccionRed

SpecRedes == InitRedes /\ [][NextRedes]_vars

\* the networks of the country
DelPais == {entrada.networks[i] : i \in {j \in 1..Len(entrada.networks) : entrada.networks[j].country = "ES"}}

\* those whose city or name contains the city the user typed, whatever the case
\* and the spaces around it
QueCoinciden ==
    {net \in DelPais :
        \/ Contiene(strip(lower(entrada.ciudad)), lower(net.city))
        \/ Contiene(strip(lower(entrada.ciudad)), lower(net.name))}

DistanciaA(net) ==
    calcular_distancia(entrada.lat_ref, entrada.lon_ref, net.latitude, net.longitude)

\* C24: the network selected is, among the networks of the country whose city or
\* name contains the user's city string (case-insensitive), or among all the
\* networks of the country when none matches, one at the smallest distance; a
\* network that does not match is never selected while one that matches exists.
C24_RedPorNombreYCercania ==
    pc = "red seleccionada" =>
       LET pool == IF QueCoinciden # {} THEN QueCoinciden ELSE DelPais
       IN  /\ pool = {} => salida = <<>>
           /\ pool # {} =>
                 /\ salida # <<>>
                 /\ salida[1] \in pool
                 /\ \A net \in pool : DistanciaA(salida[1]) <= DistanciaA(net)

SinCoordenadas(net) == net.latitude.tipo # "num" \/ net.longitude.tipo # "num"

\* C29: a network without reference coordinates is never selected in preference to
\* a network of the same pool that has them, however far that one is.
C29_RedSinCoordenadasNoGana ==
    (pc = "red seleccionada" /\ salida # <<>> /\ SinCoordenadas(salida[1])) =>
       \A net \in Rango(pool_busqueda(entrada.ciudad, entrada.networks)) : SinCoordenadas(net)

(***************************************************************************)
(* p4_transporte.contar_osm (lines 78-113), specification SpecOsm.  The    *)
(* response lists nodes by id, an id any number of times; the tags of a    *)
(* node are those of its id ("" for a tag the node does not have).         *)
(***************************************************************************)
MaxNodos == 2

MaxElementosOsm == 3

Tags(highway, bus, railway, station) ==
    [highway |-> highway, bus |-> bus, railway |-> railway, station |-> station]

\* a bus stop, a bus platform, a railway station, a tram stop that is a bus stop too,
\* a bus platform inside a light rail station, a subway station, a node of neither kind
TagsPosibles ==
    { Tags("bus_stop", "", "", ""), Tags("", "yes", "", ""), Tags("", "", "station", ""),
      Tags("bus_stop", "", "tram_stop", ""), Tags("", "yes", "", "light_rail"),
      Tags("", "", "", "subway"), Tags("", "", "", "") }

RespuestasOsm ==
    [estado : {"200", "429", "500", "excepcion"},
     tags : [1..MaxNodos -> TagsPosibles],
     elements : UNION {[1..n -> 1..MaxNodos] : n \in 0..MaxElementosOsm}]

\* the test of line 103
EsBus(tags) == tags.highway = "bus_stop" \/ tags.bus = "yes"

\* the test of line 105
EsTren(tags) == tags.railway # "" \/ tags.station \in {"subway", "light_rail"}

\* lines 97-104
ids_bus(resp) == {resp.elements[i] : i \in {j \in 1..Len(resp.elements) : EsBus(resp.tags[resp.elements[j]])}}

\* the test of line 105 as an if of its own
ids_metro_SinElif(resp) ==
    {resp.elements[i] : i \in {j \in 1..Len(resp.elements) : EsTren(resp.tags[resp.elements[j]])}}

\* lines 98-106
ids_metro(resp) ==
    {resp.elements[i] : i \in {j \in 1..Len(resp.elements) :
        ~EsBus(resp.tags[resp.elements[j]]) /\ EsTren(resp.tags[resp.elements[j]])}}

\* contar_osm(lat, lon) when the server answers resp
ContarOsm(resp) ==
    IF resp.estado = "200"
    THEN <<Cardinality(ids_bus(resp)), Cardinality(ids_metro(resp))>>
    ELSE <<0, 0>>

InitOsm ==
    /\ pc = "contar_osm"
    /\ entrada \in RespuestasOsm
    /\ salida = <<>>
    /\ SinPipeline

ContarNodos ==
    /\ pc = "contar_osm"
    /\ salida' = ContarOsm(entrada)
    /\ pc' = "osm contado"
    /\ UNCHANGED entrada
    /\ UNCHANGED varsPipeline

NextOsm == ContarNodos

SpecOsm == InitOsm /\ [][NextOsm]_vars

\* the ids of the response
IdsDistintos == {entrada.elements[i] : i \in 1..Len(entrada.elements)}

ConEtiquetaBus == {n \in IdsDistintos : entrada.tags[n].highway = "bus_stop" \/ entrada.tags[n].bus = "yes"}

ConEtiquetaTren ==
    {n \in IdsDistintos : entrada.tags[n].railway # "" \/ entrada.tags[n].station \in {"subway", "light_rail"}}

\* C26: contar_osm counts each id at most once and in at most one of the two counts:
\* a node with explicit bus tagging is counted as bus and not as rail even if it
\* carries a railway tag, so bus count + rail count <= number of distinct ids.
C26_CadaIdUnaVez ==
    (pc = "osm contado" /\ entrada.estado = "200") =>
       /\ salida[1] = Cardinality(ConEtiquetaBus)
       /\ salida[2] = Cardinality(ConEtiquetaTren \ ConEtiquetaBus)
       /\ salida[1] + salida[2] <= Cardinality(IdsDistintos)

C26_Testigo ==
    /\ pc = "osm contado"
    /\ entrada.estado = "200"
    /\ entrada.elements = <<1, 2, 1>>
    /\ entrada.tags[1] = Tags("bus_stop", "", "tram_stop", "")
    /\ entrada.tags[2] = Tags("", "", "station", "")
    /\ salida = <<1, 1>>

(***************************************************************************)
(* p4_transporte.analizar_transporte, the counts of one candidate with     *)
(* valid coordinates (lines 246-260), specification SpecEstaciones: osm is *)
(* what contar_osm returns, estaciones the station list of the network.    *)
(***************************************************************************)
MaxEstaciones == 2

RADIO_BICIS == 300

\* the stations a network can list: at the candidate's door, at 222 m and at 333 m
\* of it, and stations whose latitude or longitude is null or is not a number
EstacionesPosibles ==
    [latitude : {Num(40000), Num(40002), Num(40003), None, NoNumerico},
     longitude : {Num(3000), None, NoNumerico}]

ListasEstaciones == UNION {[1..n -> EstacionesPosibles] : n \in 0..MaxEstaciones}

\* the loop of lines 252-256
ContarBicis(lat, lon, estaciones) ==
    Cardinality({i \in 1..Len(estaciones) :
        calcular_distancia(lat, lon, estaciones[i].latitude, estaciones[i].longitude)
           <= RADIO_BICIS})

\* the tuple appended at line 260
ContarTransporte(lat, lon, osm, estaciones) == osm \o <<ContarBicis(lat, lon, estaciones)>>

InitEstaciones ==
    /\ pc = "contar_transporte"
    /\ entrada \in [lat : {Num(40000)}, lon : {Num(3000)},
                    osm : {<<0, 0>>, <<2, 1>>}, estaciones : ListasEstaciones]
    /\ salida = <<>>
    /\ SinPipeline

ContarCandidato ==
    /\ pc = "contar_transporte"
    /\ salida' = ContarTransporte(entrada.lat, entrada.lon, entrada.osm, entrada.estaciones)
    /\ pc' = "transporte contado"
    /\ UNCHANGED entrada
    /\ UNCHANGED varsPipeline

NextEstaciones == ContarCandidato

SpecEstaciones == InitEstaciones /\ [][NextEstaciones]_vars

\* the stations whose two coordinates are numbers
ConNumeros == {i \in 1..Len(entrada.estaciones) :
                  /\ entrada.estaciones[i].latitude.tipo = "num"
                  /\ entrada.estaciones[i].longitude.tipo = "num"}

\* C27: calcular_distancia returns its sentinel distance for a null or non-numeric
\* coordinate, so a station with such a coordinate is never counted as within 300 m
\* of the candidate and leaves the candidate's bus and rail counts as they are.
C27_EstacionSinCoordenadas ==
    pc = "transporte contado" =>
       /\ \A i \in 1..Len(entrada.estaciones) : i \notin ConNumeros =>
             calcular_distancia(entrada.lat, entrada.lon, entrada.estaciones[i].latitude,
                                entrada.estaciones[i].longitude) = 999999
       /\ salida[3] = Cardinality({i \in ConNumeros :
             111195 * Abs(entrada.estaciones[i].latitude.n - entrada.lat.n) <= 300 * 1000})
       /\ <<salida[1], salida[2]>> = entrada.osm

C27_Testigo ==
    /\ pc = "transporte contado"
    /\ entrada.osm = <<2, 1>>
    /\ Len(entrada.estaciones) = 2
    /\ entrada.estaciones[1] = [latitude |-> Num(40002), longitude |-> Num(3000)]
    /\ entrada.estaciones[2] = [latitude |-> Num(40000), longitude |-> None]
    /\ salida = <<2, 1, 1>>

====
